---- MODULE Spec2Model ----
(***************************************************************************)
(* A model of Requake's catalog scan (scan/scan_catalog.py with            *)
(* waveforms/waveforms.py and catalog/catalog.py) and of its family        *)
(* builder (families/build_families.py with families/families.py).         *)
(*                                                                         *)
(* Abstractions.  Events are identified by small integers; the origin time *)
(* of event e is e, so the stored catalog file, which read_catalog writes  *)
(* sorted by time, lists the events 1..n.  Epicentres and stations lie on  *)
(* a line, and gps2dist_azimuth(...)/1e3 is the absolute difference of     *)
(* two positions.  A trace is represented by its event and its sampling    *)
(* interval; correlation values are integers (hundredths).                 *)
(***************************************************************************)
EXTENDS Integers, Sequences, FiniteSets, TLC

\* ------------------------------------------------------------------ bounds
MaxScanEvents == 3
NumTraceIds == 2
MaxFamEvents == 4
MaxRows == 4
MaxUpgmaRows == 3
MaxBuildRows == 2
MaxSelectorLen == 3
MaxStored == 2
MaxLines == 3
MaxChunks == 2
MaxTemplates == 2
MaxOutRows == 4
MaxOutFiles == 2
MaxPairEvents == 3
MaxAppendEvents == 3
MaxTraces == 3
MaxCoordCalls == 2
MaxFlagRows == 3
TraceSamples == 8

EvIds == 1..MaxScanEvents
TraceIds == 1..NumTraceIds
SearchRanges == {2, 3}
FetchOutcomes == {"ok_path", "ok_client", "nodata"}
\* what can be particular about one event of the catalog
ProfileOrder == <<"plain", "far", "no_coords", "other_delta",
                  "ok_client", "nodata">>
Profiles == {ProfileOrder[k] : k \in DOMAIN ProfileOrder}
NoKey == <<0, 0>>
FamEvIds == 1..MaxFamEvents
\* cc_max of a row and config.cc_min, in hundredths
CcValues == {70, 90}
CcMinValues == {80, 90}
NoCc == -1
NoTrace == 0
NoCoord == -1
\* None for a time and for a magnitude
NoTime == -1
NoMag == -100
SortModes == {"time", "longitude", "latitude", "depth", "distance_from"}
\* the reference point of sort mode distance_from, when it is configured
RefLon == 2
RefLat == 1
NoFile == [exists |-> FALSE, rows |-> <<>>]

VARIABLES
    \* --- catalog scan
    pc,               \* position of scan_catalog: start, scan, done, exit
    exit_status,      \* -1 while running, else the process exit status
    stored_file,      \* events of the stored catalog file, in file order
    catalog,          \* the catalog scan_catalog works on
    ev_loc,           \* position of each event
    delta_of,         \* sampling interval of the trace of each event
    meta_ok,          \* station coordinates resolvable at the event's time
    fetch_of,         \* what the waveform sources answer for each event
    metadata_available, \* the station metadata can be read or downloaded
    catalog_trace_id, \* config.catalog_trace_id
    catalog_search_range,
    inventory,        \* config.inventory: "None" or "loaded"
    pi, pj,           \* indices of the next pair of combinations(catalog, 2)
    visited,          \* pairs the loop has visited, in order
    rows,             \* rows of the pair file, in order
    skipped_evids, tr_cache, old_cache_key,
    n_wave_req,       \* waveform requests sent to the provider
    n_meta_req,       \* calls of get_traceid_coords
    n_warn,           \* warnings logged
    last,             \* what the last visit did
    \* --- family builder
    fpc,              \* position of build_families: idle, read, build,
                      \*   done, error
    cc_min,           \* config.cc_min
    n_rows,           \* rows of the pair file read so far
    events,           \* keys of the events dictionary, in insertion order
    correlations,     \* correlations[e][f]: ev.correlations of event e
    ev_trace,         \* trace_id of each event of the dictionary
    fidx,             \* index in events of the next event to consider
    families,         \* the list of families being built
    sort_families_by, \* config.sort_families_by
    distance_from_lon,\* config.distance_from_lon, NoCoord for None
    distance_from_lat,\* config.distance_from_lat, NoCoord for None
    outfile,          \* config.build_families_outfile: exists, rows
    build_exit,       \* exit status of build_families, -1 while running
    \* --- selection of families
    args,             \* config.args: family_numbers, longerthan,
                      \*   shorterthan, minevents
    selection,        \* read_selected_families: pc, families_selected
    \* --- catalog files
    cat_pc,           \* idle, start, written, given, read_back, read_given
    cat_in,           \* the RequakeCatalog that is written
    cat_file,         \* the lines of the catalog file
    cat_out,          \* RequakeCatalog.read: raised, and the catalog read
    \* --- template scan
    tpc,              \* position of scan_templates: idle, start, scan,
                      \*   done, exit
    tmpl_exit,        \* -1 while running, else the process exit status
    tmpl_families,    \* the families read_selected_families returns, and
                      \*   what the template directory holds for each
    templates,        \* the list of templates
    catalog_files,    \* template signature -> closed, lines
    template_start_time, template_end_time,
    time_chunk, time_chunk_overlap, min_cc_mad_ratio,
    configured_cc_max_shift, \* cc_max_shift as the configuration gives it
    tmpl_cc_max_shift, \* config.cc_max_shift while scan_templates runs
    time,             \* start time of the current chunk
    tmpl_idx,         \* index of the next template of the current chunk
    n_chunks,         \* chunks begun
    trace_cache,      \* keys of trace_cache
    scanned,          \* calls of _scan_family_template, in order
    tmpl_last,        \* what the last call did
    \* --- output files and the interrupt signal
    run_prog,         \* the scan that runs: scan_catalog or scan_templates
    run_pc,           \* idle, loop, flush, done, exit
    run_status,       \* -1 while running, else the process exit status
    out_files,        \* each output file: buffer, disk, closed
    out_written,      \* rows passed to write(), for each output file
    flush_file,       \* the file whose flush() comes next
    \* --- waveforms/waveform_pair.py, class WaveformPair
    wp_pc,            \* idle, scan, done, exit
    wp_n,             \* number of events of the catalog
    wp_loc,           \* position of each event
    wp_no_coords,     \* the event whose time has no station coordinates
    wp_avail,         \* (evid, trace_id) the waveform sources can answer
    wp_metadata_available, \* the station metadata can be read or downloaded
    wp_catalog_trace_id,   \* config.catalog_trace_id
    wp_inventory,     \* config.inventory: "None" or "loaded"
    wp_i, wp_j,       \* indices of the next pair
    wp_evid1,         \* WaveformPair.evid1, 0 for None
    skipped_evids_traceids, \* WaveformPair.skipped_evids_traceids
    pair_tr_cache,    \* keys of WaveformPair.tr_cache
    wp_failed,        \* (evid, trace_id) the sources have failed to answer
    wp_last,          \* what the last call of get_waveform_pair did
    \* --- families/families.py, Family.append with the aggregates
    app_family,       \* one Family: members, trace_id, starttime, endtime,
                      \*   magmin, magmax
    app_last,         \* what the last call of append did
    \* --- waveforms/waveforms.py, align_traces
    al_pc,            \* idle, first, stack, align, done
    al_st,            \* the stream: data, P_arrival_time, S_arrival_time of
                      \*   each trace, and the lags applied to it
    al_stack,         \* data of tr_stack
    al_pass,          \* passes against the stack that have begun
    al_idx,           \* index in the stream of the next trace to align
    al_delta,         \* tr.stats.delta
    cc_max_shift,     \* config.cc_max_shift
    cc_allow_negative,\* config.cc_allow_negative
    al_last,          \* what the last call of align_pair did
    \* --- waveforms/station_metadata.py, get_traceid_coords
    tc_configured,    \* config.catalog_trace_id as the configuration gives it
    tc_catalog_trace_id, \* config.catalog_trace_id
    args_traceid,     \* config.args.traceid, 0 for None
    tc_known,         \* trace_ids the inventory has coordinates for
    tc_metadata_available, \* the station metadata can be read or downloaded
    tc_inventory,     \* config.inventory: "None" or "loaded"
    tc_calls,         \* calls of get_traceid_coords so far
    tc_last,          \* what the last call returned or raised
    \* --- families/flag_family.py
    flag_pc,          \* idle, start, done
    flag_file,        \* rows of config.build_families_outfile
    flag_before,      \* its rows before flag_family ran
    flag_family_number, \* config.args.family_number
    flag_is_valid,    \* config.args.is_valid
    flag_errors       \* errors logged

scan_vars == <<pc, exit_status, stored_file, catalog, ev_loc, delta_of,
               meta_ok, fetch_of, metadata_available, catalog_trace_id, catalog_search_range, inventory,
               pi, pj, visited, rows, skipped_evids, tr_cache, old_cache_key,
               n_wave_req, n_meta_req, n_warn, last>>

build_config == <<sort_families_by, distance_from_lon, distance_from_lat>>

fam_vars == <<fpc, cc_min, n_rows, events, correlations, ev_trace, fidx,
              families, build_config, outfile, build_exit>>

sel_vars == <<args, selection>>

cat_vars == <<cat_pc, cat_in, cat_file, cat_out>>

tmpl_config == <<template_start_time, template_end_time, time_chunk,
                 time_chunk_overlap, min_cc_mad_ratio,
                 configured_cc_max_shift>>

tmpl_vars == <<tpc, tmpl_exit, tmpl_families, templates, catalog_files,
               tmpl_config, time, tmpl_idx, n_chunks, trace_cache, scanned,
               tmpl_last, tmpl_cc_max_shift>>

run_vars == <<run_prog, run_pc, run_status, out_files, out_written,
              flush_file>>

wp_vars == <<wp_pc, wp_n, wp_loc, wp_no_coords, wp_avail,
             wp_metadata_available, wp_catalog_trace_id, wp_inventory,
             wp_i, wp_j, wp_evid1, skipped_evids_traceids, pair_tr_cache,
             wp_failed, wp_last>>

app_vars == <<app_family, app_last>>

align_vars == <<al_pc, al_st, al_stack, al_pass, al_idx, al_delta,
                cc_max_shift, cc_allow_negative, al_last>>

coords_vars == <<tc_configured, tc_catalog_trace_id, args_traceid, tc_known,
                 tc_metadata_available, tc_inventory, tc_calls, tc_last>>

flag_vars == <<flag_pc, flag_file, flag_before, flag_family_number,
               flag_is_valid, flag_errors>>

vars == <<scan_vars, fam_vars, sel_vars, cat_vars, tmpl_vars, run_vars, wp_vars, app_vars, align_vars, coords_vars, flag_vars>>

\* what the catalog scan and build_families leave alone
outside_scan == <<fam_vars, sel_vars, cat_vars, tmpl_vars, run_vars, wp_vars,
    app_vars,
    align_vars,
    coords_vars,
    flag_vars>>

outside_build == <<scan_vars, sel_vars, cat_vars, tmpl_vars, run_vars, wp_vars,
    app_vars,
    align_vars,
    coords_vars,
    flag_vars>>

outside_select == <<scan_vars, fam_vars, cat_vars, tmpl_vars, run_vars, wp_vars,
    app_vars,
    align_vars,
    coords_vars,
    flag_vars>>

outside_catalog == <<scan_vars, fam_vars, sel_vars, tmpl_vars, run_vars, wp_vars,
    app_vars,
    align_vars,
    coords_vars,
    flag_vars>>

outside_templates == <<scan_vars, fam_vars, sel_vars, cat_vars, run_vars, wp_vars,
    app_vars,
    align_vars,
    coords_vars,
    flag_vars>>

outside_run == <<scan_vars, fam_vars, sel_vars, cat_vars, tmpl_vars, wp_vars,
    app_vars,
    align_vars,
    coords_vars,
    flag_vars>>

outside_pair == <<scan_vars, fam_vars, sel_vars, cat_vars, tmpl_vars, run_vars,
    app_vars,
    align_vars,
    coords_vars,
    flag_vars>>

outside_append == <<scan_vars, fam_vars, sel_vars, cat_vars, tmpl_vars, run_vars, wp_vars,
    align_vars,
    coords_vars,
    flag_vars>>

outside_align == <<scan_vars, fam_vars, sel_vars, cat_vars, tmpl_vars, run_vars, wp_vars, app_vars,
    coords_vars,
    flag_vars>>

outside_coords == <<scan_vars, fam_vars, sel_vars, cat_vars, tmpl_vars, run_vars, wp_vars, app_vars, align_vars,
    flag_vars>>

outside_flag == <<scan_vars, fam_vars, sel_vars, cat_vars, tmpl_vars, run_vars, wp_vars, app_vars, align_vars, coords_vars>>

\* ------------------------------------------------------------ pure helpers
Abs(x) == IF x < 0 THEN -x ELSE x

OrigTime(e) == e

StaLoc(t) == 4 * (t - 1)

\* gps2dist_azimuth(lat1, lon1, lat2, lon2)[0] / 1e3 on a line
Dist(a, b) == Abs(a - b)

\* all orderings of a finite set, as sequences without repetition
Perms(S) ==
    {s \in [1..Cardinality(S) -> S] :
        \A a, b \in 1..Cardinality(S) : a # b => s[a] # s[b]}

SeqToSet(s) == {s[k] : k \in DOMAIN s}

\* RequakeCatalog.deduplicate: self[:] = list(set(self)).  The events of a
\* set are hashed by evid; the iteration order of a Python set of strings
\* is not fixed, so every ordering of the distinct events is possible.
deduplicate(lines) == Perms(SeqToSet(lines))

\* _pair_ok with the comparison turned around
_pair_ok_inverted(ev1, ev2) ==
    Dist(ev_loc[ev1], ev_loc[ev2]) >= catalog_search_range

\* _pair_ok
_pair_ok(ev1, ev2) == Dist(ev_loc[ev1], ev_loc[ev2]) <= catalog_search_range

\* max instead of min: the first trace_id among the farthest
FarthestFrom(x, ids) ==
    LET d(k) == Dist(StaLoc(ids[k]), x)
        best == CHOOSE k \in DOMAIN ids :
                    /\ \A m \in DOMAIN ids : d(k) >= d(m)
                    /\ \A m \in DOMAIN ids : d(m) = d(k) => k <= m
    IN ids[best]

\* min(distances, key=distances.get): the first trace_id, in the order of
\* config.catalog_trace_id, among those at minimal distance from the event
ClosestTo(x, ids) ==
    LET d(k) == Dist(StaLoc(ids[k]), x)
        best == CHOOSE k \in DOMAIN ids :
                    /\ \A m \in DOMAIN ids : d(k) <= d(m)
                    /\ \A m \in DOMAIN ids : d(m) = d(k) => k <= m
    IN ids[best]

\* ------------------------------------------------- waveforms/waveforms.py
\* The state one call of get_waveform_pair works on:
\*   inv, cache, old, skipped   config.inventory, tr_cache, old_cache_key,
\*                              skipped_evids
\*   nwave, nmeta, nwarn        requests and warnings so far
\*   st                         the stream being filled
\*   out                        "run", or the exception being raised
\*   msg                        whether that exception carries a message
\*   metafail                   whether get_traceid_coords has raised
CallState ==
    [inv |-> inventory, cache |-> tr_cache, old |-> old_cache_key,
     skipped |-> skipped_evids, nwave |-> n_wave_req, nmeta |-> n_meta_req,
     nwarn |-> n_warn, st |-> <<>>, out |-> "run", msg |-> FALSE,
     metafail |-> FALSE]

\* get_traceid_coords(orig_time): loads the inventory on first use
\* (NoMetadataError when it cannot be read or downloaded), then resolves
\* the coordinates of every configured trace_id at the event's origin time
get_traceid_coords(s, ev) ==
    LET s1 == [s EXCEPT !.nmeta = @ + 1]
    IN  IF s.inv = "None" /\ ~metadata_available
        THEN [s1 EXCEPT !.out = "NoMetadataError", !.msg = TRUE,
                        !.metafail = TRUE]
        ELSE IF ~meta_ok[ev]
        THEN [s1 EXCEPT !.inv = "loaded", !.out = "MetadataMismatchError",
                        !.msg = TRUE, !.metafail = TRUE]
        ELSE [s1 EXCEPT !.inv = "loaded"]

\* _get_trace_id(ev): the call state and the trace_id (0 when it raises)
_get_trace_id(s, ev) ==
    IF Len(catalog_trace_id) = 1
    THEN [s |-> s, tid |-> catalog_trace_id[1]]
    ELSE LET s1 == get_traceid_coords(s, ev)
         IN  [s |-> s1,
              tid |-> IF s1.out = "run"
                      THEN ClosestTo(ev_loc[ev], catalog_trace_id)
                      ELSE 0]

Trace(ev, tid) == [evid |-> ev, trace_id |-> tid, delta |-> delta_of[ev]]

\* get_event_waveform(ev).  fetch_of[ev] is what the environment answers:
\*   "ok_path"    the trace is found in event_data_path
\*   "ok_client"  event_data_path fails (a warning), the client answers
\*   "nodata"     event_data_path fails (a warning), the client fails too
\* The arrival times are taken to be computable (lines 269-280 do not
\* raise).  The result has field tr when out = "run".
get_event_waveform(s, ev, tid) ==
    LET s1 == get_traceid_coords(s, ev)
        none == [evid |-> 0, trace_id |-> 0, delta |-> 0]
        s2 == [s1 EXCEPT !.nwave = @ + 1]
        s3 == [s2 EXCEPT !.nwarn = @ + 1]
    IN  IF s1.out = "NoMetadataError"
        THEN [s |-> s1, tr |-> none]
        ELSE IF s1.out = "MetadataMismatchError"
        THEN [s |-> [s1 EXCEPT !.out = "NoWaveformError"], tr |-> none]
        ELSE IF fetch_of[ev] = "ok_path"
        THEN [s |-> s2, tr |-> Trace(ev, tid)]
        ELSE IF fetch_of[ev] = "ok_client"
        THEN [s |-> s3, tr |-> Trace(ev, tid)]
        ELSE [s |-> [s3 EXCEPT !.out = "NoWaveformError", !.msg = TRUE],
              tr |-> none]

CachePut(cache, key, tr) ==
    [k \in DOMAIN cache \cup {key} |-> IF k = key THEN tr ELSE cache[k]]

CacheDel(cache, key) == [k \in DOMAIN cache \ {key} |-> cache[k]]

\* get_waveform_pair, lines 360-364: remove trace from cache when evid
\* and/or trace_id changes (the key deleted is the new one)
PurgeCache(s, key) ==
    [s EXCEPT !.cache = IF s.old # NoKey /\ key # s.old
                        THEN CacheDel(@, key) ELSE @,
              !.old = key]

\* one iteration of "for ev in pair" of get_waveform_pair
PairLoopStep(s, ev, tid) ==
    LET key == <<ev, tid>>
        w == get_event_waveform(s, ev, tid)
    IN  IF ev \in s.skipped
        THEN [s EXCEPT !.out = "NoWaveformError", !.msg = FALSE]
        ELSE IF key \in DOMAIN s.cache
        THEN [s EXCEPT !.st = Append(@, s.cache[key])]
        ELSE IF w.s.out = "run"
        THEN [w.s EXCEPT !.cache = CachePut(@, key, w.tr),
                         !.st = Append(@, w.tr)]
        ELSE IF w.s.out = "NoWaveformError"
        THEN [w.s EXCEPT !.skipped = @ \cup {ev}, !.msg = TRUE]
        ELSE w.s

\* get_waveform_pair(pair): the call state after the call, and the trace_id
get_waveform_pair(ev1, ev2) ==
    LET g == _get_trace_id(CallState, ev1)
        s1 == PurgeCache(g.s, <<ev1, g.tid>>)
        s2 == PairLoopStep(s1, ev1, g.tid)
        s3 == IF s2.out = "run"
              THEN PairLoopStep(s2, ev2, g.tid) ELSE s2
    IN  [s |-> IF g.s.out = "run" THEN s3 ELSE g.s, tid |-> g.tid]

\* cc_waveform_pair(tr1, tr2, mode), lines 391-405: what a difference of
\* the two sampling intervals leads to
cc_waveform_pair(tr1, tr2, mode) ==
    [warning |-> tr1.delta # tr2.delta /\ mode = "events",
     exit |-> tr1.delta # tr2.delta /\ mode = "scan"]

Row(tr1, tr2) ==
    [evid1 |-> tr1.evid, evid2 |-> tr2.evid, trace_id |-> tr1.trace_id,
     orig_time1 |-> OrigTime(tr1.evid), orig_time2 |-> OrigTime(tr2.evid)]

\* the family builder before build_families is called
\* the default arguments: every family, of any duration and size
All == <<"a", "l", "l">>
NoLimit == 999
DefaultArgs ==
    [family_numbers |-> All, longerthan |-> 0, shorterthan |-> NoLimit,
     minevents |-> 0]

\* what the last call of _scan_family_template did, before any call
NoScan ==
    [kind |-> "none", template |-> 0, t0 |-> 0, cc_max |-> 0, cc_mad |-> 0,
     fetched |-> FALSE, files_before |-> <<>>, got_before |-> {},
     got_after |-> {}, scan_shift |-> 0, detection_shift |-> 0]

\* no scan is writing output
RunIdle ==
    /\ run_prog = "none"
    /\ run_pc = "idle"
    /\ run_status = -1
    /\ out_files = <<>>
    /\ out_written = <<>>
    /\ flush_file = 0

NoPairCall ==
    [out |-> "none", ev1 |-> 0, ev2 |-> 0, st |-> <<>>, attempts |-> <<>>,
     n_streams |-> 0, requests |-> <<>>]

\* no WaveformPair object exists
PairIdle ==
    /\ wp_pc = "idle"
    /\ wp_n = 0
    /\ wp_loc = <<>>
    /\ wp_no_coords = 0
    /\ wp_avail = {}
    /\ wp_metadata_available = FALSE
    /\ wp_catalog_trace_id = <<>>
    /\ wp_inventory = "None"
    /\ wp_i = 0
    /\ wp_j = 0
    /\ wp_evid1 = 0
    /\ skipped_evids_traceids = {}
    /\ pair_tr_cache = {}
    /\ wp_failed = {}
    /\ wp_last = NoPairCall

\* Family.__init__, lines 42-62
NewFamily ==
    [members |-> <<>>, trace_id |-> NoTrace, starttime |-> NoTime,
     endtime |-> NoTime, magmin |-> NoMag, magmax |-> NoMag]

NoAppend == [kind |-> "none", evid |-> 0, mag |-> NoMag]

\* no Family is being filled
AppendIdle ==
    /\ app_family = NewFamily
    /\ app_last = NoAppend

NoAlign == [tr |-> 0, lag |-> 0, before |-> <<>>, p_before |-> 0,
            s_before |-> 0]

\* no stream is being aligned
AlignIdle ==
    /\ al_pc = "idle"
    /\ al_st = <<>>
    /\ al_stack = <<>>
    /\ al_pass = 0
    /\ al_idx = 0
    /\ al_delta = 0
    /\ cc_max_shift = 0
    /\ cc_allow_negative = FALSE
    /\ al_last = NoAlign

NoCoordsCall == [out |-> "none", traceid_coords |-> {}, singleton |-> FALSE]

\* get_traceid_coords is not being called
CoordsIdle ==
    /\ tc_configured = <<>>
    /\ tc_catalog_trace_id = <<>>
    /\ args_traceid = 0
    /\ tc_known = {}
    /\ tc_metadata_available = FALSE
    /\ tc_inventory = "None"
    /\ tc_calls = 0
    /\ tc_last = NoCoordsCall

\* flag_family is not running
FlagIdle ==
    /\ flag_pc = "idle"
    /\ flag_file = <<>>
    /\ flag_before = <<>>
    /\ flag_family_number = 0
    /\ flag_is_valid = ""
    /\ flag_errors = 0

\* the template scan before scan_templates is called
TmplIdle ==
    /\ tpc = "idle"
    /\ tmpl_exit = -1
    /\ tmpl_families = <<>>
    /\ templates = <<>>
    /\ catalog_files = <<>>
    /\ template_start_time = 0
    /\ template_end_time = 0
    /\ time_chunk = 0
    /\ time_chunk_overlap = 0
    /\ min_cc_mad_ratio = 0
    /\ configured_cc_max_shift = 0
    /\ tmpl_cc_max_shift = 0
    /\ time = 0
    /\ tmpl_idx = 1
    /\ n_chunks = 0
    /\ trace_cache = {}
    /\ scanned = <<>>
    /\ tmpl_last = NoScan

CatIdle ==
    /\ cat_pc = "idle"
    /\ cat_in = <<>>
    /\ cat_file = <<>>
    /\ cat_out = [raised |-> FALSE, events |-> <<>>]

SelIdle ==
    /\ args = DefaultArgs
    /\ selection = [pc |-> "idle", families_selected |-> <<>>]

FamIdle ==
    /\ fpc = "idle"
    /\ cc_min = 0
    /\ n_rows = 0
    /\ events = <<>>
    /\ correlations = [e \in FamEvIds |-> [f \in FamEvIds |-> NoCc]]
    /\ ev_trace = [e \in FamEvIds |-> NoTrace]
    /\ fidx = 1
    /\ families = <<>>
    /\ sort_families_by = "time"
    /\ distance_from_lon = NoCoord
    /\ distance_from_lat = NoCoord
    /\ outfile = NoFile
    /\ build_exit = -1

\* ------------------------------------------------- scan/scan_catalog.py
NoVisit ==
    [kind |-> "none", ev1 |-> 0, ev2 |-> 0, trace_id |-> 0,
     skipped_before |-> {}, cached_before |-> {}, deltas |-> {},
     meta_failed |-> FALSE, d_wave |-> 0, d_meta |-> 0, d_warn |-> 0, d_rows |-> 0]

InitScan ==
    /\ pc = "start"
    /\ exit_status = -1
    \* the catalog comes back from the file in any order (deduplicate), so
    \* the profiles are given to the events in one order only
    /\ \E n \in 1..MaxScanEvents : \E prof \in [1..n -> Profiles] :
        /\ \E idx \in [1..n -> DOMAIN ProfileOrder] :
            /\ \A e \in 1..(n - 1) : idx[e] <= idx[e + 1]
            /\ prof = [e \in 1..n |-> ProfileOrder[idx[e]]]
        /\ stored_file = [k \in 1..n |-> k]
        /\ ev_loc = [e \in 1..n |-> IF prof[e] = "far" THEN 4 ELSE 1]
        /\ delta_of = [e \in 1..n |->
                          IF prof[e] = "other_delta" THEN 2 ELSE 1]
        /\ meta_ok = [e \in 1..n |-> prof[e] # "no_coords"]
        /\ fetch_of = [e \in 1..n |-> IF prof[e] \in FetchOutcomes
                                      THEN prof[e] ELSE "ok_path"]
    /\ metadata_available \in BOOLEAN
    /\ catalog = <<>>
    /\ \E k \in {1, NumTraceIds} : catalog_trace_id = [t \in 1..k |-> t]
    /\ catalog_search_range \in SearchRanges
    /\ inventory = "None"
    /\ pi = 1
    /\ pj = 2
    /\ visited = <<>>
    /\ rows = <<>>
    /\ skipped_evids = {}
    /\ tr_cache = <<>>
    /\ old_cache_key = NoKey
    /\ n_wave_req = 0
    /\ n_meta_req = 0
    /\ n_warn = 0
    /\ last = NoVisit
    /\ FamIdle
    /\ SelIdle
    /\ CatIdle
    /\ TmplIdle
    /\ RunIdle
    /\ PairIdle
    /\ AppendIdle
    /\ AlignIdle
    /\ CoordsIdle
    /\ FlagIdle

\* scan_catalog, lines 105-121: read the stored catalog (RequakeCatalog.read
\* ends with deduplicate), give up with fewer than two events
ReadStoredCatalog ==
    /\ pc = "start"
    /\ \E cat \in deduplicate(stored_file) :
        /\ catalog' = cat
        /\ IF Len(cat) < 2
           THEN pc' = "exit" /\ exit_status' = 1
           ELSE pc' = "scan" /\ exit_status' = exit_status
    /\ UNCHANGED <<stored_file, ev_loc, delta_of, meta_ok, fetch_of,
                   metadata_available, catalog_trace_id,
                   catalog_search_range, inventory, pi, pj, visited, rows,
                   skipped_evids, tr_cache, old_cache_key, n_wave_req,
                   n_meta_req, n_warn, last, outside_scan>>

\* a pair loop that only pairs each event with its successor
NextPairAdjacent(i, j) ==
    IF i + 1 < Len(catalog) THEN <<i + 1, i + 2>>
    ELSE <<Len(catalog), Len(catalog) + 1>>

\* the pair after (i, j) in combinations(catalog, 2); i = Len(catalog)
\* when there is none
NextPair(i, j) ==
    IF j < Len(catalog) THEN <<i, j + 1>>
    ELSE IF i + 1 < Len(catalog) THEN <<i + 1, i + 2>>
    ELSE <<Len(catalog), Len(catalog) + 1>>

\* _process_pairs, lines 70-97: one iteration of the loop over the pairs
ProcessPair ==
    /\ pc = "scan"
    /\ pi < Len(catalog)
    /\ \E g \in {get_waveform_pair(catalog[pi], catalog[pj])} :
        LET ev1 == catalog[pi]
            ev2 == catalog[pj]
            ok == _pair_ok(ev1, ev2)
            \* "continue" leaves everything as it is
            s == IF ok THEN g.s ELSE [CallState EXCEPT !.out = "continue"]
            fatal == s.out \in {"NoMetadataError", "MetadataMismatchError"}
            cc == cc_waveform_pair(s.st[1], s.st[2], "events")
            nwarn == IF s.out = "run"
                     THEN s.nwarn + (IF cc.warning THEN 1 ELSE 0)
                     ELSE IF s.out = "NoWaveformError" /\ s.msg
                     THEN s.nwarn + 1
                     ELSE s.nwarn
            newrows == IF s.out = "run"
                       THEN Append(rows, Row(s.st[1], s.st[2])) ELSE rows
        IN  /\ visited' = Append(visited, <<ev1, ev2>>)
            /\ rows' = newrows
            /\ inventory' = s.inv
            /\ skipped_evids' = s.skipped
            /\ tr_cache' = s.cache
            /\ old_cache_key' = s.old
            /\ n_wave_req' = s.nwave
            /\ n_meta_req' = s.nmeta
            /\ n_warn' = nwarn
            /\ pc' = IF fatal THEN "exit" ELSE pc
            /\ exit_status' = IF fatal THEN 1 ELSE exit_status
            /\ last' = [kind |-> IF s.out = "continue" THEN "far"
                                 ELSE IF fatal THEN "fatal"
                                 ELSE IF s.out = "run" THEN "row"
                                 ELSE "skip",
                        ev1 |-> ev1, ev2 |-> ev2,
                        trace_id |-> IF ok THEN g.tid ELSE 0,
                        skipped_before |-> skipped_evids,
                        cached_before |-> DOMAIN tr_cache,
                        deltas |-> {s.st[k].delta : k \in DOMAIN s.st},
                        meta_failed |-> s.metafail,
                        d_wave |-> s.nwave - n_wave_req,
                        d_meta |-> s.nmeta - n_meta_req,
                        d_warn |-> nwarn - n_warn,
                        d_rows |-> Len(newrows) - Len(rows)]
            /\ pi' = NextPair(pi, pj)[1]
            /\ pj' = NextPair(pi, pj)[2]
    /\ UNCHANGED <<stored_file, catalog, ev_loc, delta_of, meta_ok, fetch_of,
                   metadata_available, catalog_trace_id,
                   catalog_search_range, outside_scan>>

\* scan_catalog, lines 124-127: the loop is over, the pair file is closed
FinishScan ==
    /\ pc = "scan"
    /\ pi >= Len(catalog)
    /\ pc' = "done"
    /\ exit_status' = 0
    /\ UNCHANGED <<stored_file, catalog, ev_loc, delta_of, meta_ok, fetch_of,
                   metadata_available,
                   catalog_trace_id, catalog_search_range, inventory, pi, pj,
                   visited, rows, skipped_evids, tr_cache, old_cache_key,
                   n_wave_req, n_meta_req, n_warn, last, outside_scan>>

NextScan == ReadStoredCatalog \/ ProcessPair \/ FinishScan

\* the scan before scan_catalog is called
ScanIdle ==
    /\ pc = "idle"
    /\ exit_status = -1
    /\ stored_file = <<>>
    /\ catalog = <<>>
    /\ ev_loc = <<>>
    /\ delta_of = <<>>
    /\ meta_ok = <<>>
    /\ fetch_of = <<>>
    /\ metadata_available = TRUE
    /\ catalog_trace_id = <<1>>
    /\ catalog_search_range = 0
    /\ inventory = "None"
    /\ pi = 1
    /\ pj = 2
    /\ visited = <<>>
    /\ rows = <<>>
    /\ skipped_evids = {}
    /\ tr_cache = <<>>
    /\ old_cache_key = NoKey
    /\ n_wave_req = 0
    /\ n_meta_req = 0
    /\ n_warn = 0
    /\ last = NoVisit

\* --------------------------------------------------- families/families.py
\* Family(): the member list (evids), the trace_id, and whether an append
\* has raised ValueError
EmptyFamily == [members |-> <<>>, trace_id |-> NoTrace, raised |-> FALSE]

\* super().append(ev); self.sort(): list.sort is stable and RequakeEvent
\* orders by orig_time, so ev comes after the members not later than it
InsertByTime(members, ev) ==
    LET k == Cardinality({m \in DOMAIN members :
                            OrigTime(members[m]) <= OrigTime(ev)})
    IN  SubSeq(members, 1, k) \o <<ev>> \o SubSeq(members, k + 1, Len(members))

\* an append that takes events of any trace_id
FamilyAppendAnyTrace(fam, ev, trace_id) ==
    IF fam.raised THEN fam
    ELSE IF ev \in SeqToSet(fam.members) THEN fam
    ELSE [fam EXCEPT !.trace_id = IF @ = NoTrace THEN trace_id ELSE @,
                     !.members = InsertByTime(@, ev)]

\* Family.append, lines 82-91, for an event with the given trace_id.
\* "ev in self" compares evid and trace_id, and the members of a family
\* all have the trace_id of the family.
FamilyAppendEvent(fam, ev, trace_id) ==
    IF fam.raised THEN fam
    ELSE IF ev \in SeqToSet(fam.members) /\ trace_id = fam.trace_id THEN fam
    ELSE IF fam.trace_id = NoTrace
    THEN [fam EXCEPT !.trace_id = trace_id,
                     !.members = InsertByTime(@, ev)]
    ELSE IF trace_id # fam.trace_id
    THEN [fam EXCEPT !.raised = TRUE]
    ELSE [fam EXCEPT !.members = InsertByTime(@, ev)]

\* Family.append for an event of the events dictionary
FamilyAppend(fam, ev) == FamilyAppendEvent(fam, ev, ev_trace[ev])

RECURSIVE FamilyExtend(_, _)
\* Family.extend
FamilyExtend(fam, ev_list) ==
    IF ev_list = <<>> THEN fam
    ELSE FamilyExtend(FamilyAppend(fam, Head(ev_list)), Tail(ev_list))

\* ------------------------------------------- families/build_families.py
RECURSIVE SortedSeq(_)
\* the elements of a set of integers in ascending order
SortedSeq(S) ==
    IF S = {} THEN <<>>
    ELSE LET m == CHOOSE x \in S : \A y \in S : x <= y
         IN  <<m>> \o SortedSeq(S \ {m})

\* the test of line 110 with > in place of >=
IsValidCcStrict(cc) == cc > cc_min

\* lines 110-111: "if cc < cc_min: continue"
IsValidCc(cc) == ~(cc < cc_min)

\* lines 107-112: the candidate family of ev.  The items of ev.correlations
\* are taken in evid order; the order does not show in the family, whose
\* members are sorted after each append.
CandidateFamily(ev) ==
    FamilyExtend(FamilyAppend(EmptyFamily, ev),
                 SortedSeq({f \in FamEvIds :
                               /\ correlations[ev][f] # NoCc
                               /\ IsValidCc(correlations[ev][f])}))

\* lines 118-122: the first existing family that shares an event with the
\* new one, 0 if there is none
FirstSharing(fams, new_family) ==
    LET hits == {k \in DOMAIN fams :
                    SeqToSet(fams[k].members)
                        \cap SeqToSet(new_family.members) # {}}
    IN  IF hits = {} THEN 0
        ELSE CHOOSE k \in hits : \A m \in hits : k <= m

\* line 121: existing_family.extend(new_family)
Merge(existing_family, new_family) ==
    FamilyExtend(existing_family, new_family.members)

\* lines 106-124: one iteration of the loop of
\* _build_families_from_shared_events on b = [families, raised]
SharedStep(b, ev) ==
    LET new_family == CandidateFamily(ev)
        k == FirstSharing(b.families, new_family)
    IN  IF b.raised THEN b
        ELSE IF new_family.raised THEN [b EXCEPT !.raised = TRUE]
        ELSE IF Len(new_family.members) = 1 THEN b
        ELSE IF k # 0
        THEN LET merged == Merge(b.families[k], new_family)
             IN  IF merged.raised THEN [b EXCEPT !.raised = TRUE]
                 ELSE [b EXCEPT !.families[k] = merged]
        ELSE [b EXCEPT !.families = Append(@, new_family)]

RECURSIVE SharedRun(_, _)
\* _build_families_from_shared_events over the events in the given order,
\* continuing from b
SharedRun(b, order) ==
    IF order = <<>> THEN b
    ELSE SharedRun(SharedStep(b, Head(order)), Tail(order))

\* ---------------------------- _build_families_from_upgma, lines 128-165
\* line 146: min(correlations.values())
min_correlation ==
    LET recorded == {correlations[e][f] : e, f \in SeqToSet(events)} \ {NoCc}
    IN  CHOOSE c \in recorded : \A d \in recorded : c <= d

\* lines 150-153: 1 - cc in hundredths, with min_correlation for the pairs
\* the file does not hold
Distance(e, f) ==
    100 - (IF correlations[e][f] # NoCc THEN correlations[e][f]
           ELSE min_correlation)

RECURSIVE SumDistances(_)
\* the sum of the distances of a set of pairs of events
SumDistances(pairs) ==
    IF pairs = {} THEN 0
    ELSE LET p == CHOOSE q \in pairs : TRUE
         IN  Distance(p[1], p[2]) + SumDistances(pairs \ {p})

\* scipy.cluster.hierarchy.average: the distance of two clusters is the
\* mean of the distances between their members, kept as the fraction
\* num / den
Linkage(A, B) ==
    [num |-> SumDistances(A \X B), den |-> Cardinality(A) * Cardinality(B)]

\* the cut of line 158 with < in place of <=
WithinCutStrict(link) == link.num < (100 - cc_min) * link.den

\* line 158: fcluster(linkage_matrix, 1-cc_min, criterion='distance') keeps
\* together what was merged at a distance not greater than 1 - cc_min
WithinCut(link) == link.num <= (100 - cc_min) * link.den

\* the linkage of every pair of clusters of the partition P
Linkages(P) ==
    {[pair |-> S,
      link |-> LET A == CHOOSE x \in S : TRUE
               IN  Linkage(A, CHOOSE y \in S : y # A)]
        : S \in {T \in SUBSET P : Cardinality(T) = 2}}

\* the pairs of clusters that average linkage may merge next: those at the
\* least distance (scipy's choice among equal distances is not documented,
\* so every such pair is a possible choice)
ClosestPairs(links) ==
    {l \in links :
        \A m \in links :
            l.link.num * m.link.den <= m.link.num * l.link.den}

RECURSIVE UpgmaClusters(_)
\* lines 157-158: the flat clusterings that linkage and cut can give from
\* the partition P.  Average linkage has no inversions, so the cut at
\* 1 - cc_min is the partition reached when the closest pair is farther.
UpgmaClusters(P) ==
    LET closest == ClosestPairs(Linkages(P))
    IN  IF \A l \in closest : ~WithinCut(l.link)
        THEN {P}
        ELSE UNION {UpgmaClusters((P \ l.pair) \cup {UNION l.pair})
                      : l \in closest}

RECURSIVE ClusterFamilies(_)
\* lines 160-164: one family per cluster, filled in evid order, the
\* clusters taken by their first evid; families of one event are dropped
ClusterFamilies(P) ==
    IF P = {} THEN <<>>
    ELSE LET c == CHOOSE x \in P :
                    \A y \in P : SortedSeq(x)[1] <= SortedSeq(y)[1]
             rest == ClusterFamilies(P \ {c})
         IN  IF Cardinality(c) > 1
             THEN <<FamilyExtend(EmptyFamily, SortedSeq(c))>> \o rest
             ELSE rest

\* ------------------------------------ _write_families, lines 168-200
\* the coordinates of the events of the pair file: every event has them,
\* and they do not follow the order of the origin times
EvLon(e) == MaxFamEvents + 1 - e
EvLat(e) == (2 * e) % 3
EvDepth(e) == (e * e) % 4

\* the sum of the values of an attribute of the members of a family
SumOver(values) ==
    LET sum[k \in 0..Len(values)] ==
            IF k = 0 THEN 0 ELSE sum[k - 1] + values[k]
    IN  sum[Len(values)]

\* Family.append, lines 92-99: np.mean of the members' coordinates, as the
\* fraction num / den, and the least origin time
FamilyLon(fam) ==
    [num |-> SumOver([k \in DOMAIN fam.members |-> EvLon(fam.members[k])]),
     den |-> Len(fam.members)]

FamilyLat(fam) ==
    [num |-> SumOver([k \in DOMAIN fam.members |-> EvLat(fam.members[k])]),
     den |-> Len(fam.members)]

FamilyDepth(fam) ==
    [num |-> SumOver([k \in DOMAIN fam.members |-> EvDepth(fam.members[k])]),
     den |-> Len(fam.members)]

FamilyStarttime(fam) ==
    [num |-> CHOOSE t \in {OrigTime(e) : e \in SeqToSet(fam.members)} :
                 \A e \in SeqToSet(fam.members) : t <= OrigTime(e),
     den |-> 1]

\* Family.distance_from: the distance of the mean position from (lon, lat)
distance_from(fam, lon, lat) ==
    [num |-> Abs(FamilyLon(fam).num - lon * Len(fam.members))
               + Abs(FamilyLat(fam).num - lat * Len(fam.members)),
     den |-> Len(fam.members)]

\* lines 179-185
sort_keys(fam) ==
    CASE sort_families_by = "time" -> FamilyStarttime(fam)
      [] sort_families_by = "longitude" -> FamilyLon(fam)
      [] sort_families_by = "latitude" -> FamilyLat(fam)
      [] sort_families_by = "depth" -> FamilyDepth(fam)
      [] sort_families_by = "distance_from" ->
            distance_from(fam, distance_from_lon, distance_from_lat)

KeyLess(a, b) == a.num * b.den < b.num * a.den

\* line 186 left out: the families in the order the builder returned them
NotSorted(fams) == fams

\* line 186: sorted(families, key=...) is stable
SortedByKey(fams) ==
    LET Before(j, k) ==
            \/ KeyLess(sort_keys(fams[j]), sort_keys(fams[k]))
            \/ /\ ~KeyLess(sort_keys(fams[k]), sort_keys(fams[j]))
               /\ j < k
        Rank(k) == 1 + Cardinality({j \in DOMAIN fams : Before(j, k)})
    IN  [p \in DOMAIN fams |-> fams[CHOOSE k \in DOMAIN fams : Rank(k) = p]]

\* lines 196-200: the rows of one family; csv writes True as "True"
FamilyRows(fam, number) ==
    [k \in DOMAIN fam.members |->
        [evid |-> fam.members[k], trace_id |-> ev_trace[fam.members[k]],
         family_number |-> number, valid |-> "True"]]

\* lines 186-200: the rows written to the output file
_write_families(fams) ==
    LET sorted == SortedByKey(fams)
        out[k \in 0..Len(sorted)] ==
            IF k = 0 THEN <<>>
            ELSE out[k - 1] \o FamilyRows(sorted[k], k - 1)
    IN  out[Len(sorted)]

\* families.py, _read_families_from_catalog_scan, lines 162-189: the
\* families of a file, each with its number, its valid flag and its Family
_read_families_from_catalog_scan(file_rows) ==
    LET loop[k \in 0..Len(file_rows)] ==
            IF k = 0
            THEN [families |-> <<>>, family |-> <<>>,
                  old_family_number |-> -1]
            ELSE LET st == loop[k - 1]
                     row == file_rows[k]
                     new == row.family_number # st.old_family_number
                     family == IF new
                               THEN [number |-> row.family_number,
                                     valid |-> TRUE, fam |-> EmptyFamily]
                               ELSE st.family[1]
                 IN  [families |-> IF new THEN st.families \o st.family
                                   ELSE st.families,
                      family |->
                         <<[family EXCEPT
                              !.fam = FamilyAppendEvent(@, row.evid,
                                                        row.trace_id),
                              !.valid = row.valid \in {"True", "true"}]>>,
                      old_family_number |-> row.family_number]
    IN  loop[Len(file_rows)].families \o loop[Len(file_rows)].family

InitFam ==
    /\ ScanIdle
    /\ fpc = "read"
    /\ cc_min \in CcMinValues
    /\ n_rows = 0
    /\ events = <<>>
    /\ correlations = [e \in FamEvIds |-> [f \in FamEvIds |-> NoCc]]
    /\ ev_trace = [e \in FamEvIds |-> NoTrace]
    /\ fidx = 1
    /\ families = <<>>
    /\ sort_families_by = "time"
    /\ distance_from_lon = NoCoord
    /\ distance_from_lat = NoCoord
    /\ outfile = NoFile
    /\ build_exit = -1
    /\ SelIdle
    /\ CatIdle
    /\ TmplIdle
    /\ RunIdle
    /\ PairIdle
    /\ AppendIdle
    /\ AlignIdle
    /\ CoordsIdle
    /\ FlagIdle

\* _read_events_from_pairs_file, lines 56-89: one row of the pair file.
\* The file has one row per pair of events, as the scan writes it.  The
\* builder uses evids as keys only, so the events are numbered in the order
\* in which the file first names them.
ReadRowUpTo(limit) ==
    /\ fpc = "read"
    /\ n_rows < limit
    /\ \E evid1, evid2 \in FamEvIds, trace_id \in {1, NumTraceIds},
          cc \in CcValues :
        /\ evid1 # evid2
        /\ correlations[evid1][evid2] = NoCc
        /\ LET new1 == IF evid1 \in SeqToSet(events) THEN <<>> ELSE <<evid1>>
               new2 == IF evid2 \in SeqToSet(events) THEN <<>> ELSE <<evid2>>
           IN  /\ \A k \in DOMAIN (new1 \o new2) :
                     (new1 \o new2)[k] = Len(events) + k
               /\ events' = events \o new1 \o new2
               /\ ev_trace' = [e \in FamEvIds |->
                                 IF e \in SeqToSet(new1 \o new2)
                                 THEN trace_id ELSE ev_trace[e]]
        /\ correlations' = [correlations EXCEPT ![evid1][evid2] = cc,
                                                ![evid2][evid1] = cc]
    /\ n_rows' = n_rows + 1
    /\ UNCHANGED <<fpc, cc_min, fidx, families, build_config, outfile,
                   build_exit, outside_build>>

ReadRow == ReadRowUpTo(MaxRows)

\* build_families, lines 215-226: the pair file is read to its end
StartBuild ==
    /\ fpc = "read"
    /\ fpc' = "build"
    /\ UNCHANGED <<cc_min, n_rows, events, correlations, ev_trace, fidx,
                   families, build_config, outfile, build_exit, outside_build>>

\* _build_families_from_shared_events, lines 106-124: one event of the
\* dictionary; a ValueError of Family.append is not caught
BuildStep ==
    /\ fpc = "build"
    /\ fidx <= Len(events)
    /\ \E b \in {SharedStep([families |-> families, raised |-> FALSE],
                           events[fidx])} :
        /\ families' = b.families
        /\ fpc' = IF b.raised THEN "error" ELSE fpc
    /\ fidx' = fidx + 1
    /\ UNCHANGED <<cc_min, n_rows, events, correlations, ev_trace,
                   build_config, outfile, build_exit, outside_build>>

\* line 125: return families
FinishBuild ==
    /\ fpc = "build"
    /\ fidx > Len(events)
    /\ fpc' = "done"
    /\ UNCHANGED <<cc_min, n_rows, events, correlations, ev_trace, fidx,
                   families, build_config, outfile, build_exit, outside_build>>

\* build_families, lines 227-229, with _build_families_from_upgma: min()
\* of an empty dictionary and a trace_id mismatch in Family.append raise
\* ValueError, which is not caught
BuildUPGMA ==
    /\ fpc = "read"
    /\ IF n_rows = 0
       THEN fpc' = "error" /\ families' = families
       ELSE \E P \in UpgmaClusters({{e} : e \in SeqToSet(events)}) :
              \E fams \in {ClusterFamilies(P)} :
                IF \E k \in DOMAIN fams : fams[k].raised
                THEN fpc' = "error" /\ families' = families
                ELSE fpc' = "upgma_done" /\ families' = fams
    /\ UNCHANGED <<cc_min, n_rows, events, correlations, ev_trace, fidx,
                   build_config, outfile, build_exit, outside_build>>

\* build_families, lines 230-231: the families are written and the run ends
WriteFamilies ==
    /\ fpc \in {"done", "upgma_done"}
    /\ \E written \in {_write_families(families)} :
          outfile' = [exists |-> TRUE, rows |-> written]
    /\ fpc' = "written"
    /\ build_exit' = 0
    /\ UNCHANGED <<cc_min, n_rows, events, correlations, ev_trace, fidx,
                   families, build_config, outside_build>>

NextFam ==
    \/ ReadRow
    \/ StartBuild
    \/ BuildStep
    \/ FinishBuild
    \/ WriteFamilies

SpecFam == InitFam /\ [][NextFam]_vars

\* the run with clustering_algorithm = UPGMA
ReadRowUpgma == ReadRowUpTo(MaxUpgmaRows)

NextUpgma == ReadRowUpgma \/ BuildUPGMA \/ WriteFamilies

SpecUpgma == InitFam /\ [][NextUpgma]_vars

\* ------------------------------------------- build_families, whole run
\* line 35 with "and" between the two tests of the reference point
_check_options_both_missing ==
    /\ sort_families_by = "distance_from"
    /\ (distance_from_lon = NoCoord /\ distance_from_lat = NoCoord)

\* _check_options, lines 33-39: raises ValueError
_check_options ==
    /\ sort_families_by = "distance_from"
    /\ (distance_from_lon = NoCoord \/ distance_from_lat = NoCoord)

InitBuild ==
    /\ ScanIdle
    /\ fpc = "start"
    /\ cc_min \in CcMinValues
    /\ n_rows = 0
    /\ events = <<>>
    /\ correlations = [e \in FamEvIds |-> [f \in FamEvIds |-> NoCc]]
    /\ ev_trace = [e \in FamEvIds |-> NoTrace]
    /\ fidx = 1
    /\ families = <<>>
    /\ sort_families_by \in SortModes
    /\ distance_from_lon \in {NoCoord, RefLon}
    /\ distance_from_lat \in {NoCoord, RefLat}
    /\ outfile = NoFile
    /\ build_exit = -1
    /\ SelIdle
    /\ CatIdle
    /\ TmplIdle
    /\ RunIdle
    /\ PairIdle
    /\ AppendIdle
    /\ AlignIdle
    /\ CoordsIdle
    /\ FlagIdle

\* build_families, lines 210-214
CheckOptions ==
    /\ fpc = "start"
    /\ IF _check_options
       THEN fpc' = "exit" /\ build_exit' = 1
       ELSE fpc' = "read" /\ build_exit' = build_exit
    /\ UNCHANGED <<cc_min, n_rows, events, correlations, ev_trace, fidx,
                   families, build_config, outfile, outside_build>>

\* build_families, lines 218-223: the pair file does not exist
PairsFileNotFound ==
    /\ fpc = "read"
    /\ n_rows = 0
    /\ fpc' = "exit"
    /\ build_exit' = 1
    /\ UNCHANGED <<cc_min, n_rows, events, correlations, ev_trace, fidx,
                   families, build_config, outfile, outside_build>>

ReadRowBuild == ReadRowUpTo(MaxBuildRows)

NextBuild ==
    \/ CheckOptions
    \/ PairsFileNotFound
    \/ ReadRowBuild
    \/ StartBuild
    \/ BuildStep
    \/ FinishBuild
    \/ BuildUPGMA
    \/ WriteFamilies

SpecBuild == InitBuild /\ [][NextBuild]_vars

\* ---------------------------- families.py, selection of stored families
\* the characters of a family_numbers argument; "x" is a letter
SelChars == {"0", "1", ",", "-", "x"}
Selectors ==
    {All} \cup UNION {[1..n -> SelChars] : n \in 0..MaxSelectorLen}
\* longerthan, shorterthan and minevents: no limit, or one limit at a time
Limits ==
    {<<0, NoLimit, 0>>, <<2, NoLimit, 0>>, <<0, 2, 0>>, <<0, NoLimit, 3>>}
\* the families of the stored files: origin times of the members, as
\* offsets from the first one
Shapes == {<<0, 1>>, <<0, 2>>, <<0, 1, 2>>}

\* a family file of n families numbered from 0, as build_families writes
\* it and flag_family changes it
StoredRows(n, shape, valid) ==
    LET out[k \in 0..n] ==
            IF k = 0 THEN <<>>
            ELSE out[k - 1] \o
                 [m \in DOMAIN shape[k] |->
                    [evid |-> 3 * (k - 1) + 1 + shape[k][m], trace_id |-> 1,
                     family_number |-> k - 1, valid |-> valid[k]]]
    IN  out[n]

IsDigits(tok) == tok # <<>> /\ \A k \in DOMAIN tok : tok[k] \in {"0", "1"}

DigitsValue(tok) ==
    LET v[k \in 0..Len(tok)] ==
            IF k = 0 THEN 0
            ELSE 10 * v[k - 1] + (IF tok[k] = "1" THEN 1 ELSE 0)
    IN  v[Len(tok)]

\* int(tok) does not raise ValueError: digits, with or without a sign
IntOk(tok) ==
    \/ IsDigits(tok)
    \/ Len(tok) >= 2 /\ tok[1] = "-" /\ IsDigits(Tail(tok))

IntValue(tok) ==
    IF tok[1] = "-" THEN 0 - DigitsValue(Tail(tok)) ELSE DigitsValue(tok)

RECURSIVE Split(_, _)
\* str.split(sep)
Split(str, sep) ==
    IF \A k \in DOMAIN str : str[k] # sep THEN <<str>>
    ELSE LET k == CHOOSE i \in DOMAIN str :
                    str[i] = sep /\ \A j \in 1..(i - 1) : str[j] # sep
         IN  <<SubSeq(str, 1, k - 1)>>
                 \o Split(SubSeq(str, k + 1, Len(str)), sep)

\* line 362 with the last number of the range included
RangeInclusive(family0, family1) == family0..family1

\* line 362: range(family0, family1)
Range(family0, family1) == family0..(family1 - 1)

\* _build_family_number_list, lines 351-371: the numbers, or raised for
\* FamilyNotFoundError
_build_family_number_list(family_numbers, file_rows) ==
    LET by_comma == Split(family_numbers, ",")
        by_dash == Split(family_numbers, "-")
        Raised == [raised |-> TRUE, fn |-> {}]
    IN  IF family_numbers = All
        THEN [raised |-> FALSE,
              fn |-> {file_rows[k].family_number : k \in DOMAIN file_rows}]
        ELSE IF Len(by_comma) > 1
        THEN IF \A k \in DOMAIN by_comma : IntOk(by_comma[k])
             THEN [raised |-> FALSE,
                   fn |-> {IntValue(by_comma[k]) : k \in DOMAIN by_comma}]
             ELSE Raised
        ELSE IF Len(by_dash) > 1
        THEN IF Len(by_dash) = 2 /\ \A k \in DOMAIN by_dash : IntOk(by_dash[k])
             THEN [raised |-> FALSE,
                   fn |-> Range(IntValue(by_dash[1]), IntValue(by_dash[2]))]
             ELSE Raised
        ELSE IF IsDigits(family_numbers)
        THEN [raised |-> FALSE, fn |-> {DigitsValue(family_numbers)}]
        ELSE Raised

\* Family.append, lines 98-101: endtime - starttime of a family
FamilyTimeSpan(fam) ==
    LET times == {OrigTime(e) : e \in SeqToSet(fam.members)}
    IN  (CHOOSE t \in times : \A u \in times : u <= t)
            - (CHOOSE t \in times : \A u \in times : t <= u)

\* read_selected_families, lines 250-268: the family passes every test
IsSelected(family, family_numbers) ==
    /\ family.number \in family_numbers
    /\ family.valid
    /\ ~(FamilyTimeSpan(family.fam) < args.longerthan)
    /\ ~(FamilyTimeSpan(family.fam) >= args.shorterthan)
    /\ ~(Len(family.fam.members) < args.minevents)

\* read_selected_families, lines 247-271
read_selected_families ==
    LET numbers == _build_family_number_list(args.family_numbers,
                                             outfile.rows)
        read == _read_families_from_catalog_scan(outfile.rows)
        keep == {k \in DOMAIN read : IsSelected(read[k], numbers.fn)}
        families_selected ==
            [p \in 1..Cardinality(keep) |->
                read[CHOOSE k \in keep :
                        Cardinality({j \in keep : j <= k}) = p]]
    IN  IF numbers.raised \/ keep = {}
        THEN [pc |-> "raised", families_selected |-> <<>>]
        ELSE [pc |-> "returned", families_selected |-> families_selected]

InitSelect ==
    /\ ScanIdle
    /\ fpc = "idle"
    /\ cc_min = 0
    /\ n_rows = 0
    /\ events = <<>>
    /\ correlations = [e \in FamEvIds |-> [f \in FamEvIds |-> NoCc]]
    /\ ev_trace = [e \in FamEvIds |-> NoTrace]
    /\ fidx = 1
    /\ families = <<>>
    /\ sort_families_by = "time"
    /\ distance_from_lon = NoCoord
    /\ distance_from_lat = NoCoord
    /\ build_exit = -1
    /\ \E n \in 0..MaxStored :
          \E shape \in [1..n -> Shapes], valid \in [1..n -> {"True", "False"}] :
              outfile = [exists |-> TRUE, rows |-> StoredRows(n, shape, valid)]
    /\ \E family_numbers \in Selectors, limits \in Limits :
          args = [family_numbers |-> family_numbers,
                  longerthan |-> limits[1], shorterthan |-> limits[2],
                  minevents |-> limits[3]]
    /\ selection = [pc |-> "start", families_selected |-> <<>>]
    /\ CatIdle
    /\ TmplIdle
    /\ RunIdle
    /\ PairIdle
    /\ AppendIdle
    /\ AlignIdle
    /\ CoordsIdle
    /\ FlagIdle

\* a caller of read_selected_families (build_templates, scan_templates,
\* the plots)
ReadSelectedFamilies ==
    /\ selection.pc = "start"
    /\ \E result \in {read_selected_families} : selection' = result
    /\ UNCHANGED <<args, outside_select>>

NextSelect == ReadSelectedFamilies

SpecSelect == InitSelect /\ [][NextSelect]_vars

\* ------------------------------------ catalog.py, catalog files
\* evids as they stand in a file
EvChars == <<"1", "2", "3", "4", "5", "6", "7", "8", "9">>

\* fdsn_text, lines 104-119, and the line terminator of line 182: the evid,
\* a separator, and "f" for the twelve other fields
EventLine(ev) == <<EvChars[ev], "|", "f", "\n">>
CommentLine == <<"#", "c", "\n">>
BlankLine == <<"\n">>
Lines == {EventLine(ev) : ev \in EvIds} \cup {CommentLine, BlankLine}

RECURSIVE Strip(_)
\* str.strip()
Strip(str) ==
    IF str = <<>> THEN str
    ELSE IF Head(str) \in {"\n", " "} THEN Strip(Tail(str))
    ELSE IF str[Len(str)] \in {"\n", " "}
    THEN Strip(SubSeq(str, 1, Len(str) - 1))
    ELSE str

\* from_fdsn_text, lines 79-95: the evid of the line, 0 for ValueError
\* (a line without the other fields raises IndexError at word[1])
from_fdsn_text(line) ==
    LET word == Split(Strip(line), "|")
    IN  IF Len(word) < 2 THEN 0
        ELSE CHOOSE ev \in DOMAIN EvChars : <<EvChars[ev]>> = word[1]

\* RequakeCatalog.write, lines 180-182
write(cat) == [k \in DOMAIN cat |-> EventLine(cat[k])]

RECURSIVE ReadLines(_, _)
\* RequakeCatalog.read, lines 163-170: the events appended, or raised
ReadLines(file_lines, acc) ==
    IF file_lines = <<>> THEN [raised |-> FALSE, events |-> acc]
    ELSE LET line == Head(file_lines)
         IN  IF line = <<>> THEN ReadLines(Tail(file_lines), acc)
             ELSE IF line[1] = "#" THEN ReadLines(Tail(file_lines), acc)
             ELSE IF from_fdsn_text(line) = 0
             THEN [raised |-> TRUE, events |-> <<>>]
             ELSE ReadLines(Tail(file_lines),
                            Append(acc, from_fdsn_text(line)))

\* the catalog is written by read_catalog, or the file is given
InitCatalog ==
    /\ ScanIdle
    /\ FamIdle
    /\ SelIdle
    /\ TmplIdle
    /\ \/ /\ cat_pc = "start"
          /\ cat_in \in UNION {[1..n -> EvIds] : n \in 0..MaxLines}
          /\ cat_file = <<>>
       \/ /\ cat_pc = "given"
          /\ cat_in = <<>>
          /\ cat_file \in UNION {[1..n -> Lines] : n \in 0..MaxLines}
    /\ cat_out = [raised |-> FALSE, events |-> <<>>]
    /\ RunIdle
    /\ PairIdle
    /\ AppendIdle
    /\ AlignIdle
    /\ CoordsIdle
    /\ FlagIdle

\* RequakeCatalog.write
WriteCatalog ==
    /\ cat_pc = "start"
    /\ cat_file' = write(cat_in)
    /\ cat_pc' = "written"
    /\ UNCHANGED <<cat_in, cat_out, outside_catalog>>

\* RequakeCatalog.read into an empty catalog, lines 162-171
ReadCatalog ==
    /\ cat_pc \in {"written", "given"}
    /\ \E r \in {ReadLines(cat_file, <<>>)} :
          IF r.raised THEN cat_out' = r
          ELSE \E cat \in deduplicate(r.events) :
                  cat_out' = [raised |-> FALSE, events |-> cat]
    /\ cat_pc' = IF cat_pc = "written" THEN "read_back" ELSE "read_given"
    /\ UNCHANGED <<cat_in, cat_file, outside_catalog>>

NextCatalog == WriteCatalog \/ ReadCatalog

SpecCatalog == InitCatalog /\ [][NextCatalog]_vars

\* ------------------------------------------------ scan/scan_templates.py
\* scan-mode correlation results, cc_max and cc_mad in hundredths, cc_mad
\* positive
CcScan ==
    {[cc_max |-> 30, cc_mad |-> 10], [cc_max |-> 60, cc_mad |-> 10],
     [cc_max |-> 90, cc_mad |-> 10], [cc_max |-> 90, cc_mad |-> 30]}

MinCcMadRatios == {6}
\* config.cc_max_shift, in the unit of time_chunk
CcMaxShifts == {2}

\* sampling interval of the continuous traces
StreamDelta == 1

\* f'{template.stats.family_number:02d}.{template.id}'
template_signature(template) == <<template.family_number, template.id>>

\* the two ends of the window of the chunk that starts at t
ChunkWindowNoOverlap(t) == [t0 |-> t, t1 |-> t + time_chunk]

ChunkWindow(t) == [t0 |-> t, t1 |-> t + time_chunk + time_chunk_overlap]

\* line 92 with a trigger that fires on the threshold itself
TriggerInclusive(cc) == cc.cc_max >= min_cc_mad_ratio * cc.cc_mad

\* lines 91-92: cc_peak = cc_max/cc_mad, cc_peak > config.min_cc_mad_ratio
Trigger(cc) == cc.cc_max > min_cc_mad_ratio * cc.cc_mad

\* a loop that gives up on NoWaveformError
AfterScanAbort(kind) ==
    IF kind \in {"fatal", "nodata"} THEN "exit" ELSE "scan"

\* lines 187-193: NoWaveformError is logged and the loop continues; rq_exit
\* in cc_waveform_pair ends the process
AfterScan(kind) == IF kind = "fatal" THEN "exit" ELSE "scan"

\* _read_templates, lines 125-137, config.args.template_file being None:
\* one template per selected family whose template file can be read
RECURSIVE _read_templates(_)
_read_templates(fams) ==
    IF fams = <<>> THEN <<>>
    ELSE LET f == Head(fams)
             tr == [family_number |-> f.number, id |-> f.trace_id,
                    delta |-> f.delta]
         IN  IF f.on_disk THEN <<tr>> \o _read_templates(Tail(fams))
             ELSE _read_templates(Tail(fams))

\* _template_catalog_files, lines 152-166
_template_catalog_files(tmpls) ==
    [sig \in {template_signature(tmpls[k]) : k \in DOMAIN tmpls} |->
        [closed |-> FALSE, lines |-> <<>>]]

InitTemplates ==
    /\ tpc = "start"
    /\ tmpl_exit = -1
    /\ \E n \in 0..MaxTemplates : \E shared \in BOOLEAN : \E bad \in 0..n :
       \E badkind \in {"missing", "other_delta"} :
        tmpl_families =
            [k \in 1..n |->
                [number |-> k - 1,
                 trace_id |-> IF shared THEN 1
                              ELSE ((k - 1) % NumTraceIds) + 1,
                 on_disk |-> ~(k = bad /\ badkind = "missing"),
                 delta |-> IF k = bad /\ badkind = "other_delta"
                           THEN 2 * StreamDelta ELSE StreamDelta]]
    /\ templates = <<>>
    /\ catalog_files = <<>>
    /\ template_start_time \in {1}
    /\ template_end_time \in
           (template_start_time - 1)..(template_start_time + MaxChunks - 1)
    /\ time_chunk \in {0, 1, 2}
    /\ time_chunk_overlap \in {0, 1}
    /\ min_cc_mad_ratio \in MinCcMadRatios
    /\ configured_cc_max_shift \in CcMaxShifts
    /\ tmpl_cc_max_shift = configured_cc_max_shift
    /\ time = 0
    /\ tmpl_idx = 1
    /\ n_chunks = 0
    /\ trace_cache = {}
    /\ scanned = <<>>
    /\ tmpl_last = NoScan
    /\ ScanIdle
    /\ FamIdle
    /\ SelIdle
    /\ CatIdle
    /\ RunIdle
    /\ PairIdle
    /\ AppendIdle
    /\ AlignIdle
    /\ CoordsIdle
    /\ FlagIdle

\* scan_templates, lines 173-181: read_selected_families raises
\* FamilyNotFoundError when it selects nothing
ReadTemplates ==
    /\ tpc = "start"
    /\ IF tmpl_families = <<>>
       THEN /\ tpc' = "exit"
            /\ tmpl_exit' = 1
            /\ UNCHANGED <<templates, catalog_files, time>>
       ELSE /\ tpc' = "scan"
            /\ templates' = _read_templates(tmpl_families)
            /\ catalog_files' =
                   _template_catalog_files(_read_templates(tmpl_families))
            /\ time' = template_start_time
            /\ UNCHANGED tmpl_exit
    /\ UNCHANGED <<tmpl_families, tmpl_config, tmpl_idx, n_chunks,
                   trace_cache, scanned, tmpl_last, tmpl_cc_max_shift,
                   outside_templates>>

\* a chunk may begin: line 182, and no more than MaxChunks chunks when the
\* start time does not advance
ChunkMayBegin ==
    /\ time <= template_end_time
    /\ time_chunk > 0 \/ n_chunks < MaxChunks

\* cc_waveform_pair, line 407: shift = int(config.cc_max_shift/dt1)
MaxLag(max_shift, dt) == max_shift \div dt

\* a cache key that leaves the start time out
CacheKeyNoTime(t0, template) == <<0, template.id>>

\* _scan_family_template, line 76: key = f'{t0}_{trace_id}'
CacheKey(t0, template) == <<t0, template.id>>

\* lines 183-195 and _scan_family_template: one iteration of the loop over
\* the templates; after the last template of the chunk the cache is cleared
\* and the start time advances
ScanFamilyTemplate ==
    /\ tpc = "scan"
    /\ tmpl_idx <= Len(templates)
    /\ tmpl_idx > 1 \/ ChunkMayBegin
    /\ \E fetch \in {"ok", "nodata"} : \E cc \in CcScan :
        LET template == templates[tmpl_idx]
            sig == template_signature(template)
            w == ChunkWindow(time)
            key == CacheKey(w.t0, template)
            cached == key \in trace_cache
            got == cached \/ fetch = "ok"
            got_before == IF tmpl_idx = 1 THEN {} ELSE tmpl_last.got_after
            mismatch ==
                cc_waveform_pair([delta |-> StreamDelta], template,
                                 "scan").exit
            kind == IF ~got THEN "nodata"
                    ELSE IF mismatch THEN "fatal"
                    ELSE IF Trigger(cc) THEN "detection"
                    ELSE "quiet"
            after == AfterScan(kind)
            last_of_chunk == tmpl_idx = Len(templates)
        IN  /\ scanned' = Append(scanned, [t0 |-> w.t0, t1 |-> w.t1,
                                           template |-> tmpl_idx])
            /\ catalog_files' =
                   IF kind = "detection"
                   THEN [catalog_files EXCEPT ![sig].lines =
                            Append(@, [trace_id |-> template.id,
                                       t0 |-> w.t0])]
                   ELSE catalog_files
            /\ tpc' = after
            /\ tmpl_exit' = IF after = "exit" THEN 1 ELSE tmpl_exit
            /\ trace_cache' = IF after = "scan" /\ last_of_chunk THEN {}
                              ELSE IF got THEN trace_cache \cup {key}
                              ELSE trace_cache
            /\ time' = IF after = "scan" /\ last_of_chunk
                       THEN time + time_chunk ELSE time
            /\ tmpl_idx' = IF after = "exit" THEN tmpl_idx
                           ELSE IF last_of_chunk THEN 1 ELSE tmpl_idx + 1
            /\ n_chunks' = IF tmpl_idx = 1 THEN n_chunks + 1 ELSE n_chunks
            /\ tmpl_last' =
                   [kind |-> kind, template |-> tmpl_idx, t0 |-> w.t0,
                    cc_max |-> IF kind \in {"detection", "quiet"}
                               THEN cc.cc_max ELSE 0,
                    cc_mad |-> IF kind \in {"detection", "quiet"}
                               THEN cc.cc_mad ELSE 0,
                    fetched |-> ~cached,
                    files_before |-> catalog_files,
                    got_before |-> got_before,
                    got_after |-> IF ~cached /\ fetch = "ok"
                                  THEN got_before \cup {template.id}
                                  ELSE got_before,
                    scan_shift |->
                        IF got THEN MaxLag(time_chunk, StreamDelta) ELSE 0,
                    detection_shift |->
                        IF kind = "detection"
                        THEN MaxLag(time_chunk, StreamDelta) ELSE 0]
            \* line 89: config.cc_max_shift = config.time_chunk, once the
            \* trace is there
            /\ tmpl_cc_max_shift' = IF got THEN time_chunk
                                    ELSE tmpl_cc_max_shift
    /\ UNCHANGED <<tmpl_families, templates, tmpl_config, outside_templates>>

\* lines 182-195 with an empty list of templates: the chunk has nothing to
\* scan
EmptyChunk ==
    /\ tpc = "scan"
    /\ templates = <<>>
    /\ ChunkMayBegin
    /\ trace_cache' = {}
    /\ time' = time + time_chunk
    /\ n_chunks' = n_chunks + 1
    /\ UNCHANGED <<tpc, tmpl_exit, tmpl_families, templates, catalog_files,
                   tmpl_config, tmpl_idx, scanned, tmpl_last,
                   tmpl_cc_max_shift, outside_templates>>

\* lines 196-197: the loop is over, every catalog file is closed
CloseFiles ==
    /\ tpc = "scan"
    /\ tmpl_idx = 1
    /\ time > template_end_time
    /\ catalog_files' =
           [sig \in DOMAIN catalog_files |->
               [catalog_files[sig] EXCEPT !.closed = TRUE]]
    /\ tpc' = "done"
    /\ tmpl_exit' = 0
    /\ UNCHANGED <<tmpl_families, templates, tmpl_config, time, tmpl_idx,
                   n_chunks, trace_cache, scanned, tmpl_last,
                   tmpl_cc_max_shift, outside_templates>>

NextTemplates ==
    ReadTemplates \/ ScanFamilyTemplate \/ EmptyChunk \/ CloseFiles

SpecTemplates == InitTemplates /\ [][NextTemplates]_vars

\* the loops of scan_templates run on: a single thread, nothing to wait for
SpecTemplatesFair == SpecTemplates /\ WF_vars(NextTemplates)

\* ------------------------- output files of the two scans, rq_setup.rq_exit
\* a row of an output file is passed to write() in one call, here as
\* RowParts pieces that reach the disk one after the other
RowParts == 2

RowText(k) == [p \in 1..RowParts |-> [row |-> k, part |-> p]]

EmptyOut == [buffer |-> <<>>, disk |-> <<>>, closed |-> FALSE]

\* a close that throws the buffered text away
close_without_flush(file) ==
    [buffer |-> <<>>, disk |-> file.disk, closed |-> TRUE]

\* closing a file writes what its buffer holds: the with statement of
\* scan_catalog, line 124, and the release of the files of scan_templates
close(file) ==
    [buffer |-> <<>>, disk |-> file.disk \o file.buffer, closed |-> TRUE]

RECURSIVE TotalWritten(_)
TotalWritten(f) ==
    IF f = 0 THEN 0 ELSE Len(out_written[f]) + TotalWritten(f - 1)

InitRun ==
    /\ run_prog \in {"scan_catalog", "scan_templates"}
    /\ run_pc = "loop"
    /\ run_status = -1
    /\ \E n \in 1..MaxOutFiles :
        /\ run_prog = "scan_catalog" => n = 1
        /\ out_files = [f \in 1..n |-> EmptyOut]
        /\ out_written = [f \in 1..n |-> <<>>]
    /\ flush_file = 0
    /\ ScanIdle
    /\ FamIdle
    /\ SelIdle
    /\ CatIdle
    /\ TmplIdle
    /\ PairIdle
    /\ AppendIdle
    /\ AlignIdle
    /\ CoordsIdle
    /\ FlagIdle

\* scan_catalog.py line 84, writer.writerow, and scan_templates.py line 95,
\* catalog_file.write: the whole row goes to the buffer of the file
WriteRow ==
    /\ run_pc = "loop"
    /\ TotalWritten(Len(out_files)) < MaxOutRows
    /\ \E f \in DOMAIN out_files :
        LET k == Len(out_written[f]) + 1
        IN  /\ out_files' = [out_files EXCEPT ![f].buffer = @ \o RowText(k)]
            /\ out_written' = [out_written EXCEPT ![f] = Append(@, k)]
            /\ flush_file' = IF run_prog = "scan_templates" THEN f ELSE 0
    /\ run_pc' = IF run_prog = "scan_templates" THEN "flush" ELSE "loop"
    /\ UNCHANGED <<run_prog, run_status, outside_run>>

\* scan_templates.py line 96: catalog_file.flush()
Flush ==
    /\ run_pc = "flush"
    /\ out_files' = [out_files EXCEPT
                       ![flush_file].disk = @ \o out_files[flush_file].buffer,
                       ![flush_file].buffer = <<>>]
    /\ run_pc' = "loop"
    /\ flush_file' = 0
    /\ UNCHANGED <<run_prog, run_status, out_written, outside_run>>

\* the buffer of a file is written out in part when it fills up
BufferOverflow ==
    /\ run_pc \in {"loop", "flush"}
    /\ \E f \in DOMAIN out_files : \E n \in 1..Len(out_files[f].buffer) :
        out_files' = [out_files EXCEPT
                        ![f].disk = @ \o SubSeq(out_files[f].buffer, 1, n),
                        ![f].buffer = SubSeq(@, n + 1, Len(@))]
    /\ UNCHANGED <<run_prog, run_pc, run_status, out_written, flush_file,
                   outside_run>>

\* scan_catalog.py lines 124-126 and scan_templates.py lines 196-197: the
\* loop ends, the files are closed, the caller exits with status 0
FinishRun ==
    /\ run_pc = "loop"
    /\ out_files' = [f \in DOMAIN out_files |-> close(out_files[f])]
    /\ run_pc' = "done"
    /\ run_status' = 0
    /\ UNCHANGED <<run_prog, out_written, flush_file, outside_run>>

\* rq_setup.py lines 325-342: sigint_handler calls rq_exit(1, abort=True),
\* sys.exit raises SystemExit where the scan is; the with statement closes
\* the pair file, the files of scan_templates are closed when the
\* interpreter releases them
Sigint ==
    /\ run_pc \in {"loop", "flush"}
    /\ out_files' = [f \in DOMAIN out_files |-> close(out_files[f])]
    /\ run_pc' = "exit"
    /\ run_status' = 1
    /\ UNCHANGED <<run_prog, out_written, flush_file, outside_run>>

NextRun == WriteRow \/ Flush \/ BufferOverflow \/ FinishRun \/ Sigint

SpecRun == InitRun /\ [][NextRun]_vars

\* ------------------------------ waveforms/waveform_pair.py, WaveformPair
PairDist(ev, t) == Dist(StaLoc(t), wp_loc[ev])

\* the trace_ids as the configuration lists them
TraceIdsInConfigOrder(ev) == wp_catalog_trace_id

\* _get_trace_id, lines 72-80: sorted(distances, key=distances.get).  The
\* dictionary is filled in the order of config.catalog_trace_id and the
\* sort is stable, so trace_ids at equal distance keep that order.
SortedTraceIds(ev) ==
    LET ids == wp_catalog_trace_id
        pos(t) == CHOOSE k \in DOMAIN ids : ids[k] = t
    IN  CHOOSE s \in Perms(SeqToSet(ids)) :
            \A a, b \in DOMAIN s : a < b =>
                \/ PairDist(ev, s[a]) < PairDist(ev, s[b])
                \/ /\ PairDist(ev, s[a]) = PairDist(ev, s[b])
                   /\ pos(s[a]) < pos(s[b])

\* The state one call of WaveformPair.get_waveform_pair works on:
\*   inv, cache, skipped   config.inventory, self.tr_cache,
\*                         self.skipped_evids_traceids
\*   attempts              self.trace_id_attempts[ev1.evid]
\*   st, ev1               the stream and the flag of _get_pair_stream
\*   out                   "run", or the exception being raised
\*   failed, requests, n_streams   what the waveform sources were asked
PairCallState ==
    [inv |-> wp_inventory, cache |-> pair_tr_cache,
     skipped |-> skipped_evids_traceids, attempts |-> <<>>, st |-> <<>>,
     ev1 |-> TRUE, out |-> "run", failed |-> wp_failed, requests |-> <<>>,
     n_streams |-> 0]

\* get_traceid_coords(orig_time) as the WaveformPair object meets it
PairTraceidCoords(s, ev) ==
    IF s.inv = "None" /\ ~wp_metadata_available
    THEN [s EXCEPT !.out = "NoMetadataError"]
    ELSE IF ev = wp_no_coords
    THEN [s EXCEPT !.inv = "loaded", !.out = "MetadataMismatchError"]
    ELSE [s EXCEPT !.inv = "loaded"]

\* WaveformPair._get_trace_id(ev): the call state and the trace_id (0 when
\* it raises)
WaveformPair_get_trace_id(s, ev) ==
    LET ids == wp_catalog_trace_id
        c == PairTraceidCoords(s, ev)
        sorted == SortedTraceIds(ev)
        free == {k \in DOMAIN sorted : sorted[k] \notin SeqToSet(s.attempts)}
        first == CHOOSE k \in free : \A m \in free : k <= m
    IN  IF Len(ids) = 1
        THEN IF ids[1] \in SeqToSet(s.attempts)
             THEN [s |-> [s EXCEPT !.out = "NoWaveformError"], tid |-> 0]
             ELSE [s |-> [s EXCEPT !.attempts = Append(@, ids[1])],
                   tid |-> ids[1]]
        ELSE IF c.out = "NoMetadataError"
        THEN [s |-> c, tid |-> 0]
        ELSE IF c.out = "MetadataMismatchError"
        THEN [s |-> [c EXCEPT !.out = "NoWaveformError"], tid |-> 0]
        ELSE IF free = {}
        THEN [s |-> [c EXCEPT !.out = "NoWaveformError"], tid |-> 0]
        ELSE [s |-> [c EXCEPT !.attempts = Append(@, sorted[first])],
              tid |-> sorted[first]]

\* get_event_waveform(ev) for ev.trace_id = tid: the waveform sources are
\* asked once the coordinates are resolved
PairEventWaveform(s, ev, tid) ==
    LET c == PairTraceidCoords(s, ev)
        key == <<ev, tid>>
        ok == key \in wp_avail
        asked == [c EXCEPT !.requests =
                     Append(@, [key |-> key, ok |-> ok,
                                failed_before |-> key \in s.failed])]
    IN  IF c.out = "NoMetadataError"
        THEN c
        ELSE IF c.out = "MetadataMismatchError"
        THEN [c EXCEPT !.out = "NoWaveformError"]
        ELSE IF ok
        THEN asked
        ELSE [asked EXCEPT !.out = "NoWaveformError",
                           !.failed = @ \cup {key}]

\* one iteration of "for ev in pair" of _get_pair_stream, lines 102-125;
\* the two continue statements leave the flag ev1 as it is
PairStreamStep(s, ev, tid) ==
    LET key == <<ev, tid>>
        w == PairEventWaveform(s, ev, tid)
    IN  IF s.out # "run"
        THEN s
        ELSE IF key \in s.skipped
        THEN s
        ELSE IF key \in s.cache
        THEN [s EXCEPT !.st = Append(@, key)]
        ELSE IF w.out = "run"
        THEN [w EXCEPT !.cache = IF s.ev1 THEN @ \cup {key} ELSE @,
                       !.st = Append(@, key), !.ev1 = FALSE]
        ELSE IF w.out = "NoWaveformError"
        THEN [w EXCEPT !.skipped = @ \cup {key}, !.out = "run",
                       !.ev1 = FALSE]
        ELSE w

\* WaveformPair._get_pair_stream(pair), both events carrying trace_id tid
WaveformPair_get_pair_stream(s, e1, e2, tid) ==
    LET s0 == [s EXCEPT !.st = <<>>, !.ev1 = TRUE, !.n_streams = @ + 1]
        s2 == PairStreamStep(PairStreamStep(s0, e1, tid), e2, tid)
    IN  IF s2.out = "run" /\ Len(s2.st) < 2
        THEN [s2 EXCEPT !.out = "NoWaveformError"]
        ELSE s2

RECURSIVE TryTraceIds(_, _, _, _)
\* get_waveform_pair, lines 154-163: the loop "while True"
TryTraceIds(s, e1, e2, tid) ==
    LET p == WaveformPair_get_pair_stream(s, e1, e2, tid)
        g == WaveformPair_get_trace_id([p EXCEPT !.out = "run"], e1)
    IN  IF p.out # "NoWaveformError"
        THEN p
        ELSE IF g.s.out = "NoWaveformError"
        THEN [g.s EXCEPT !.st = <<>>]
        ELSE IF g.s.out # "run"
        THEN g.s
        ELSE TryTraceIds(g.s, e1, e2, g.tid)

\* WaveformPair.get_waveform_pair(pair): the call state after the call
WaveformPair_get_waveform_pair(e1, e2) ==
    LET s0 == [PairCallState EXCEPT
                  !.cache = IF e1 # wp_evid1 THEN {} ELSE @]
        g == WaveformPair_get_trace_id(s0, e1)
    IN  IF g.s.out # "run" THEN g.s ELSE TryTraceIds(g.s, e1, e2, g.tid)

\* a WaveformPair object is made for a catalog of wp_n events;
\* each event has its waveform for no trace_id, for one, or for all
InitPair ==
    /\ wp_pc = "scan"
    /\ wp_n \in 2..MaxPairEvents
    /\ \E far \in 0..wp_n :
          wp_loc = [e \in 1..wp_n |-> IF e = far THEN 4 ELSE 1]
    /\ wp_no_coords \in 0..wp_n
    /\ \E k \in {1, NumTraceIds} :
        /\ wp_catalog_trace_id = [t \in 1..k |-> t]
        /\ \E has \in [1..wp_n -> 0..(k + 1)] :
              wp_avail = {key \in (1..wp_n) \X (1..k) :
                             has[key[1]] \in {key[2], k + 1}}
    /\ wp_metadata_available \in BOOLEAN
    /\ wp_inventory = "None"
    /\ wp_i = 1
    /\ wp_j = 2
    /\ wp_evid1 = 0
    /\ skipped_evids_traceids = {}
    /\ pair_tr_cache = {}
    /\ wp_failed = {}
    /\ wp_last = NoPairCall
    /\ ScanIdle
    /\ FamIdle
    /\ SelIdle
    /\ CatIdle
    /\ TmplIdle
    /\ RunIdle
    /\ AppendIdle
    /\ AlignIdle
    /\ CoordsIdle
    /\ FlagIdle

\* the next pair of combinations(catalog, 2) is given to get_waveform_pair;
\* NoMetadataError ends the scan, NoWaveformError skips the pair
GetWaveformPair ==
    /\ wp_pc = "scan"
    /\ \E r \in {WaveformPair_get_waveform_pair(wp_i, wp_j)} :
       LET more == wp_i + 1 < wp_n
       IN  /\ wp_inventory' = r.inv
           /\ wp_evid1' = wp_i
           /\ skipped_evids_traceids' = r.skipped
           /\ pair_tr_cache' = r.cache
           /\ wp_failed' = r.failed
           /\ wp_last' = [out |-> r.out, ev1 |-> wp_i, ev2 |-> wp_j,
                          st |-> r.st, attempts |-> r.attempts,
                          n_streams |-> r.n_streams,
                          requests |-> r.requests]
           /\ wp_pc' = IF r.out = "NoMetadataError" THEN "exit"
                       ELSE IF wp_j = wp_n /\ ~more THEN "done"
                       ELSE "scan"
           /\ wp_i' = IF wp_j = wp_n THEN wp_i + 1 ELSE wp_i
           /\ wp_j' = IF wp_j = wp_n THEN wp_i + 2 ELSE wp_j + 1
    /\ UNCHANGED <<wp_n, wp_loc, wp_no_coords, wp_avail,
                   wp_metadata_available, wp_catalog_trace_id,
                   outside_pair>>

NextWaveformPair == GetWaveformPair

SpecPair == InitPair /\ [][NextWaveformPair]_vars

\* ------------------------ families/families.py, append and its aggregates
\* magnitudes in tenths
MagValues == {NoMag, -5, 0, 15}

\* the truth value Python gives a magnitude: None and 0.0 are false
MagTruthy(x) == x # NoMag /\ x # 0

\* the truth value of an origin time: None is false, an object is true
TimeTruthy(x) == x # NoTime

Min2(a, b) == IF a <= b THEN a ELSE b

Max2(a, b) == IF a >= b THEN a ELSE b

\* super().append(ev); self.sort(), for events as records: the sort is
\* stable, so ev comes after the members not later than it
SortedAppend(members, ev) ==
    LET k == Cardinality({m \in DOMAIN members :
                            members[m].orig_time <= ev.orig_time})
    IN  SubSeq(members, 1, k) \o <<ev>> \o SubSeq(members, k + 1, Len(members))

\* _mag_quantities, lines 114-115
_mag_quantities(fam, ev) ==
    [fam EXCEPT
        !.magmin = IF MagTruthy(@) THEN Min2(ev.mag, @) ELSE ev.mag,
        !.magmax = IF MagTruthy(@) THEN Max2(ev.mag, @) ELSE ev.mag]

\* Family.append, lines 82-105: the family after the call, and what the
\* call did
Family_append(fam, ev) ==
    LET same(a, b) == a.evid = b.evid /\ a.trace_id = b.trace_id
        added == [fam EXCEPT
                    !.trace_id = ev.trace_id,
                    !.members = SortedAppend(@, ev),
                    !.starttime = IF TimeTruthy(@)
                                  THEN Min2(ev.orig_time, @)
                                  ELSE ev.orig_time,
                    !.endtime = IF TimeTruthy(@)
                                THEN Max2(ev.orig_time, @)
                                ELSE ev.orig_time]
    IN  IF \E k \in DOMAIN fam.members : same(fam.members[k], ev)
        THEN [fam |-> fam, kind |-> "present"]
        ELSE IF fam.trace_id # NoTrace /\ ev.trace_id # fam.trace_id
        THEN [fam |-> fam, kind |-> "ValueError"]
        ELSE [fam |-> IF ev.mag # NoMag THEN _mag_quantities(added, ev)
                      ELSE added,
              kind |-> "appended"]

InitAppend ==
    /\ app_family = NewFamily
    /\ app_last = NoAppend
    /\ ScanIdle
    /\ FamIdle
    /\ SelIdle
    /\ CatIdle
    /\ TmplIdle
    /\ RunIdle
    /\ PairIdle
    /\ AlignIdle
    /\ CoordsIdle
    /\ FlagIdle

\* one call of Family.append, for any event
AppendCall ==
    /\ \E evid \in 1..MaxAppendEvents, mag \in MagValues,
          trace_id \in {1, NumTraceIds} :
        \E r \in {Family_append(app_family,
                     [evid |-> evid, orig_time |-> OrigTime(evid),
                      mag |-> mag, trace_id |-> trace_id])} :
            /\ app_family' = r.fam
            /\ app_last' = [kind |-> r.kind, evid |-> evid, mag |-> mag]
    /\ UNCHANGED outside_append

NextAppend == AppendCall

SpecAppend == InitAppend /\ [][NextAppend]_vars

\* --------------------------------- waveforms/waveforms.py, align_traces
\* The samples of a trace are integers.  detrend('demean') and the mean of
\* _stack_traces divide; the model keeps the samples times the divisor,
\* which is the same for every trace of the stream and leaves the place of
\* the correlation maximum where it is.
PulsePositions == {3, 4, 6}
ShiftSettings == {1, 2, 3}
Deltas == {1, 2}

\* a trace with one arrival: a triangle of height 3 around sample p
Pulse(p) ==
    [i \in 1..TraceSamples |->
        IF Abs(i - p) < 3 THEN 3 - Abs(i - p) ELSE 0]

\* detrend('demean'), times the number of samples
Demean(data) == [i \in DOMAIN data |-> Len(data) * data[i] - SumOver(data)]

\* process_waveforms, lines 314-315: a demeaned copy.  Taper and band-pass
\* (lines 316-328) are left to the signal library; the traces are taken to
\* lie in the pass band.
process_waveforms(data) == Demean(data)

\* obspy correlate(a, b, shift): c[k] = sum of a[i + k] * b[i], for the
\* lags k in -shift..shift
correlate(a, b, shift) ==
    [k \in -shift..shift |->
        SumOver([i \in DOMAIN b |->
                    IF i + k \in DOMAIN a THEN a[i + k] * b[i] ELSE 0])]

\* obspy xcorr_max(cc, abs_max): the lag of the first maximum of cc, or of
\* its absolute value
xcorr_max(cc, abs_max) ==
    LET val(k) == IF abs_max THEN Abs(cc[k]) ELSE cc[k]
    IN  CHOOSE k \in DOMAIN cc :
            /\ \A m \in DOMAIN cc : val(m) <= val(k)
            /\ \A m \in DOMAIN cc : val(m) = val(k) => k <= m

\* cc_waveform_pair, lines 406-411, mode 'events': the lag in samples
cc_lag(data1, data2) ==
    LET shift == cc_max_shift \div al_delta
    IN  xcorr_max(correlate(process_waveforms(data1),
                            process_waveforms(data2), shift),
                  cc_allow_negative)

\* align_pair, lines 425-434: data2[lag:] = tr2.data[:-lag] for a positive
\* lag, data2[:lag] = tr2.data[-lag:] for a negative one, zeros elsewhere
Shifted(data, lag) ==
    [i \in DOMAIN data |->
        IF i - lag \in DOMAIN data THEN data[i - lag] ELSE 0]

\* align_pair(tr1, tr2): trace 2 after the call
align_pair(data1, tr2) ==
    LET lag == cc_lag(data1, tr2.data)
    IN  [data |-> Shifted(tr2.data, lag),
         P_arrival_time |-> tr2.P_arrival_time + lag * al_delta,
         S_arrival_time |-> tr2.S_arrival_time + lag * al_delta,
         lags |-> Append(tr2.lags, lag)]

\* _stack_traces, lines 468-476: every trace is demeaned in place and the
\* stack is their mean (normalize_traces_before_averaging off); the model
\* keeps the sum
StackData(st) ==
    [i \in 1..TraceSamples |->
        SumOver([k \in DOMAIN st |-> st[k].data[i]])]

\* a family's stream of traces, each with its arrival somewhere
InitAlign ==
    /\ al_pc = "first"
    /\ \E n \in 2..MaxTraces : \E pos \in [1..n -> PulsePositions] :
          al_st = [k \in 1..n |->
                      [data |-> Pulse(pos[k]), P_arrival_time |-> 10,
                       S_arrival_time |-> 20, lags |-> <<>>]]
    /\ al_stack = <<>>
    /\ al_pass = 0
    /\ al_idx = 2
    /\ al_delta \in Deltas
    /\ cc_max_shift \in ShiftSettings
    /\ cc_allow_negative \in BOOLEAN
    /\ al_last = NoAlign
    /\ ScanIdle
    /\ FamIdle
    /\ SelIdle
    /\ CatIdle
    /\ TmplIdle
    /\ RunIdle
    /\ PairIdle
    /\ AppendIdle
    /\ CoordsIdle
    /\ FlagIdle

AlignStep(ref, k) ==
    /\ al_st' = [al_st EXCEPT ![k] = align_pair(ref, al_st[k])]
    /\ al_last' = [tr |-> k, lag |-> cc_lag(ref, al_st[k].data),
                   before |-> al_st[k].data,
                   p_before |-> al_st[k].P_arrival_time,
                   s_before |-> al_st[k].S_arrival_time]

\* align_traces, lines 448-450: the next trace is aligned to the first one
AlignToFirst ==
    /\ al_pc = "first"
    /\ al_idx <= Len(al_st)
    /\ AlignStep(al_st[1].data, al_idx)
    /\ al_idx' = al_idx + 1
    /\ al_pc' = IF al_idx = Len(al_st) THEN "stack" ELSE "first"
    /\ UNCHANGED <<al_stack, al_pass, al_delta, cc_max_shift,
                   cc_allow_negative, outside_align>>

\* align_traces, lines 452-453: a pass begins with the stack of the traces
StackTraces ==
    /\ al_pc = "stack"
    /\ \E st \in {[k \in DOMAIN al_st |->
                     [al_st[k] EXCEPT !.data = Demean(@)]]} :
        /\ al_st' = st
        /\ al_stack' = StackData(st)
    /\ al_pass' = al_pass + 1
    /\ al_idx' = 1
    /\ al_pc' = "align"
    /\ al_last' = NoAlign
    /\ UNCHANGED <<al_delta, cc_max_shift, cc_allow_negative,
                   outside_align>>

\* align_traces, lines 454-456: the next trace is aligned to the stack
AlignToStack ==
    /\ al_pc = "align"
    /\ AlignStep(al_stack, al_idx)
    /\ al_idx' = al_idx + 1
    /\ al_pc' = IF al_idx < Len(al_st) THEN "align"
                ELSE IF al_pass < 2 THEN "stack" ELSE "done"
    /\ UNCHANGED <<al_stack, al_pass, al_delta, cc_max_shift,
                   cc_allow_negative, outside_align>>

NextAlign == AlignToFirst \/ StackTraces \/ AlignToStack

SpecAlign == InitAlign /\ [][NextAlign]_vars

\* ------------------- waveforms/station_metadata.py, get_traceid_coords
\* the first trace_id of a list the inventory has no coordinates for, 0 if
\* it has them all
FirstUnknown(ids) ==
    LET unknown == {k \in DOMAIN ids : ids[k] \notin tc_known}
    IN  IF unknown = {} THEN 0
        ELSE ids[CHOOSE k \in unknown : \A m \in unknown : k <= m]

\* get_traceid_coords(orig_time), lines 245-263.  traceid_list is the list
\* object config.catalog_trace_id itself, so the append of line 252 is an
\* append to the configured list.
TraceidCoords(ids, inv) ==
    LET traceid_list == IF args_traceid # 0
                        THEN Append(ids, args_traceid) ELSE ids
    IN  IF inv = "None" /\ ~tc_metadata_available
        THEN [out |-> "NoMetadataError", ids |-> ids, inv |-> inv,
              traceid_coords |-> {}]
        ELSE IF FirstUnknown(traceid_list) # 0
        THEN [out |-> "MetadataMismatchError", ids |-> traceid_list,
              inv |-> "loaded", traceid_coords |-> {}]
        ELSE [out |-> "return", ids |-> traceid_list, inv |-> "loaded",
              traceid_coords |-> SeqToSet(traceid_list)]

\* a run with its configured list of trace_ids and, for the commands that
\* take one, the trace_id of the command line
InitCoords ==
    /\ \E n \in 1..NumTraceIds :
          \E ids \in [1..n -> 1..(NumTraceIds + 1)] :
            /\ \A a, b \in 1..n : a # b => ids[a] # ids[b]
            /\ tc_configured = ids
            /\ tc_catalog_trace_id = ids
    /\ args_traceid \in 0..(NumTraceIds + 1)
    /\ tc_known \in SUBSET (1..(NumTraceIds + 1))
    /\ tc_metadata_available \in BOOLEAN
    /\ tc_inventory = "None"
    /\ tc_calls = 0
    /\ tc_last = NoCoordsCall
    /\ ScanIdle
    /\ FamIdle
    /\ SelIdle
    /\ CatIdle
    /\ TmplIdle
    /\ RunIdle
    /\ PairIdle
    /\ AppendIdle
    /\ AlignIdle
    /\ FlagIdle

\* one call of get_traceid_coords; singleton is what _get_trace_id
\* (waveforms.py, lines 47-49) finds when it looks at the list afterwards
GetTraceidCoords ==
    /\ tc_calls < MaxCoordCalls
    /\ \E r \in {TraceidCoords(tc_catalog_trace_id, tc_inventory)} :
        /\ tc_catalog_trace_id' = r.ids
        /\ tc_inventory' = r.inv
        /\ tc_last' = [out |-> r.out, traceid_coords |-> r.traceid_coords,
                       singleton |-> Len(r.ids) = 1]
    /\ tc_calls' = tc_calls + 1
    /\ UNCHANGED <<tc_configured, args_traceid, tc_known,
                   tc_metadata_available, outside_coords>>

NextCoords == GetTraceidCoords

SpecCoords == InitCoords /\ [][NextCoords]_vars

\* ------------------------------------------- families/flag_family.py
\* lines 27-28
true_words == {"True", "true", "t", "T"}

false_words == {"False", "false", "FALSE", "f", "F"}

\* what the user may type for is_valid
IsValidWords == {"true", "T", "False", "f", "TRUE", "yes"}

\* str(bool), as csv writes a bool
BoolText(b) == IF b THEN "True" ELSE "False"

\* lines 42-45: one row read and written back
FlagRow(row, family_number, is_valid) ==
    IF row.family_number = family_number
    THEN [row EXCEPT !.valid = BoolText(is_valid)]
    ELSE row

\* a family file as build_families or an earlier flag_family left it:
\* the rows of family 0, then those of family 1, each family valid or not
InitFlag ==
    /\ flag_pc = "start"
    /\ \E n \in 0..MaxFlagRows : \E first1 \in 1..(n + 1) :
       \E valid \in [0..1 -> {"True", "False"}] :
          flag_file = [k \in 1..n |->
                          [evid |-> k,
                           family_number |-> IF k < first1 THEN 0 ELSE 1,
                           valid |-> valid[IF k < first1 THEN 0 ELSE 1]]]
    /\ flag_before = flag_file
    /\ flag_family_number \in 0..2
    /\ flag_is_valid \in IsValidWords
    /\ flag_errors = 0
    /\ ScanIdle
    /\ FamIdle
    /\ SelIdle
    /\ CatIdle
    /\ TmplIdle
    /\ RunIdle
    /\ PairIdle
    /\ AppendIdle
    /\ AlignIdle
    /\ CoordsIdle

\* flag_family, lines 26-48: an unrecognised word is logged as an error and
\* the function goes on, with is_valid = False; the rows are copied to a
\* temporary file, which then replaces the family file
FlagFamily ==
    /\ flag_pc = "start"
    /\ LET recognised == flag_is_valid \in true_words \cup false_words
           is_valid == flag_is_valid \in true_words
       IN  /\ flag_errors' = IF recognised THEN flag_errors
                             ELSE flag_errors + 1
           /\ flag_file' = [k \in DOMAIN flag_file |->
                              FlagRow(flag_file[k], flag_family_number,
                                      is_valid)]
    /\ flag_pc' = "done"
    /\ UNCHANGED <<flag_before, flag_family_number, flag_is_valid,
                   outside_flag>>

NextFlag == FlagFamily

SpecFlag == InitFlag /\ [][NextFlag]_vars

\* the two scans, each run on its own
InitScans == InitScan \/ InitTemplates

NextScans == NextScan \/ NextTemplates

SpecScans == InitScans /\ [][NextScans]_vars

Init == InitScan

Next == NextScan

Spec == Init /\ [][Next]_vars

\* ===================================================== claims, catalog scan
RECURSIVE PairsFrom(_, _, _)
\* the pairs of combinations(cat, 2) from index pair (i, j) on
PairsFrom(cat, i, j) ==
    IF i >= Len(cat) THEN <<>>
    ELSE IF j > Len(cat) THEN PairsFrom(cat, i + 1, i + 2)
    ELSE <<(<<cat[i], cat[j]>>)>> \o PairsFrom(cat, i, j + 1)

RECURSIVE IsSubsequence(_, _)
\* a is obtained from b by leaving elements out
IsSubsequence(a, b) ==
    IF a = <<>> THEN TRUE
    ELSE IF b = <<>> THEN FALSE
    ELSE IF Head(a) = Head(b) THEN IsSubsequence(Tail(a), Tail(b))
    ELSE IsSubsequence(a, Tail(b))

RowPairs == [k \in DOMAIN rows |-> <<rows[k].evid1, rows[k].evid2>>]

\* C1: the pair loop visits the pairs of combinations(catalog, 2) in that
\* order: no pair of an event with itself, no unordered pair twice, and when
\* the loop has run to its end every unordered pair of distinct events once,
\* N*(N-1)/2 visits in all; the rows of the pair file are a subsequence of
\* the visited pairs, so at most one row per visit and in visiting order.
C1_PairEnumeration ==
    LET n == Len(catalog)
        all == PairsFrom(catalog, 1, 2)
    IN  /\ Len(visited) <= Len(all)
        /\ visited = SubSeq(all, 1, Len(visited))
        /\ \A k \in DOMAIN visited : visited[k][1] # visited[k][2]
        /\ \A k, m \in DOMAIN visited :
              k # m => {visited[k][1], visited[k][2]}
                          # {visited[m][1], visited[m][2]}
        /\ IsSubsequence(RowPairs, visited)
        /\ pc = "done" =>
              /\ 2 * Len(visited) = n * (n - 1)
              /\ \A a, b \in SeqToSet(catalog) : a # b =>
                    \E k \in DOMAIN visited :
                        {visited[k][1], visited[k][2]} = {a, b}

C1_Witness ==
    /\ pc = "done"
    /\ Len(catalog) >= 3
    /\ Len(rows) >= 1
    /\ Len(rows) < Len(visited)

\* C2: the catalog the scan works on is sorted by non-decreasing origin
\* time, and every row has orig_time1 <= orig_time2.
C2_CatalogSortedByTime ==
    /\ \A k, m \in DOMAIN catalog :
          k < m => OrigTime(catalog[k]) <= OrigTime(catalog[m])
    /\ \A k \in DOMAIN rows : rows[k].orig_time1 <= rows[k].orig_time2

\* C3: every row written is of a pair within catalog_search_range, and the
\* visit of a pair beyond the range writes no row, logs no warning, sends no waveform
\* or metadata request and leaves the trace cache and the skipped events as
\* they are.
C3_FarPairUntouched ==
    [][/\ rows' # rows =>
            /\ Len(rows') = Len(rows) + 1
            /\ LET row == rows'[Len(rows')]
               IN  Dist(ev_loc[row.evid1], ev_loc[row.evid2])
                       <= catalog_search_range
       /\ (/\ pc = "scan"
           /\ pi < Len(catalog)
           /\ Dist(ev_loc[catalog[pi]], ev_loc[catalog[pj]])
                  > catalog_search_range)
          => (/\ rows' = rows
              /\ n_warn' = n_warn
              /\ n_wave_req' = n_wave_req
              /\ n_meta_req' = n_meta_req
              /\ tr_cache' = tr_cache
              /\ old_cache_key' = old_cache_key
              /\ skipped_evids' = skipped_evids
              /\ inventory' = inventory
              /\ pc' = pc)]_vars

C3_Witness ==
    /\ last.kind = "far"
    /\ Len(rows) >= 1
    /\ DOMAIN tr_cache # {}

\* C4: the visit of a pair one of whose events is already recorded as
\* skipped writes no row and sends no waveform request.
C4_SkippedEventShortCircuits ==
    [][(/\ pc = "scan"
        /\ pi < Len(catalog)
        /\ {catalog[pi], catalog[pj]} \cap skipped_evids # {})
       => (/\ rows' = rows
           /\ n_wave_req' = n_wave_req)]_vars

\* the configured trace_ids at minimal distance from the midpoint of x1, x2
\* (distances doubled to stay in the integers)
NearestToMidpoint(x1, x2) ==
    {t \in SeqToSet(catalog_trace_id) :
        \A u \in SeqToSet(catalog_trace_id) :
            Abs(2 * StaLoc(t) - (x1 + x2)) <= Abs(2 * StaLoc(u) - (x1 + x2))}

\* the configured trace_ids at minimal distance from x
NearestTo(x) ==
    {t \in SeqToSet(catalog_trace_id) :
        \A u \in SeqToSet(catalog_trace_id) :
            Dist(StaLoc(t), x) <= Dist(StaLoc(u), x)}

\* C5 as stated: with several trace_ids configured the one used for a pair
\* is nearest to the midpoint between the two events.
C5_NearestToMidpoint ==
    (last.kind \in {"row", "skip"} /\ Len(catalog_trace_id) > 1)
        => last.trace_id
              \in NearestToMidpoint(ev_loc[last.ev1], ev_loc[last.ev2])

\* C5 amended: with several trace_ids configured the one used for a pair is
\* the one nearest to event 1 (the first configured among equally near
\* ones), whatever event 2 is; a single configured trace_id is used as it
\* is, without a metadata lookup for the choice.
C5_NearestToEvent1 ==
    /\ (last.kind \in {"row", "skip"} /\ Len(catalog_trace_id) > 1) =>
          /\ last.trace_id \in NearestTo(ev_loc[last.ev1])
          /\ \A k \in DOMAIN catalog_trace_id :
                catalog_trace_id[k] \in NearestTo(ev_loc[last.ev1])
                    => \E m \in 1..k : catalog_trace_id[m] = last.trace_id
          /\ last.d_meta >= 1
    /\ (last.kind \in {"row", "skip"} /\ Len(catalog_trace_id) = 1) =>
          /\ last.trace_id = catalog_trace_id[1]
          /\ last.ev1 \in last.skipped_before => last.d_meta = 0
    /\ \A k \in DOMAIN rows :
          rows[k].trace_id \in NearestTo(ev_loc[rows[k].evid1])

C5_Witness ==
    /\ last.kind = "row"
    /\ Len(catalog_trace_id) > 1
    /\ last.trace_id
          \notin NearestToMidpoint(ev_loc[last.ev1], ev_loc[last.ev2])

\* C6: a visit in which the station coordinates could not be resolved
\* (NoMetadataError, MetadataMismatchError) ends the run with exit status 1;
\* an event whose coordinates cannot be resolved is never just skipped.
C6_MetadataFailureIsFatal ==
    /\ last.meta_failed => (pc = "exit" /\ exit_status = 1)
    /\ \A e \in skipped_evids : meta_ok[e]

\* C7: in pair mode, when the two traces of a pair differ in sampling
\* interval the visit logs exactly one warning and writes no row, and the
\* scan goes on; in scan mode the difference ends the run.
C7_DeltaMismatchSkipsPair ==
    /\ Cardinality(last.deltas) = 2 =>
          /\ last.d_rows = 0
          /\ last.d_warn = 1
          /\ pc \in {"scan", "done"}
    /\ \A d1, d2 \in {1, 2} : d1 # d2 =>
          cc_waveform_pair([delta |-> d1], [delta |-> d2], "scan").exit

\* ------------------------------------------ claims, shared-event builder
\* the evids of a family, and a list of families as a set of sets of evids
FamSet(fam) == SeqToSet(fam.members)

FamSets(fams) == {FamSet(fams[k]) : k \in DOMAIN fams}

\* the pair (e, f) is in the pair file with cc >= cc_min
Linked(e, f) ==
    /\ e # f
    /\ correlations[e][f] # NoCc
    /\ correlations[e][f] >= cc_min

RECURSIVE Closure(_)
\* the events joined to S by chains of linked pairs
Closure(S) ==
    LET T == S \cup {f \in FamEvIds : \E e \in S : Linked(e, f)}
    IN  IF T = S THEN S ELSE Closure(T)

\* the connected components of size >= 2 of the graph of linked pairs
Components ==
    {c \in {Closure({e}) : e \in SeqToSet(events)} : Cardinality(c) >= 2}

\* C8: when the shared-event builder returns, every family has at least
\* two events and every pair of events with cc >= cc_min lies together in
\* one of the returned families.
C8_SharedFamilies ==
    fpc = "done" =>
        /\ \A k \in DOMAIN families : Len(families[k].members) >= 2
        /\ \A e, f \in FamEvIds :
              Linked(e, f) =>
                  \E k \in DOMAIN families : {e, f} \subseteq FamSet(families[k])

\* C8 happens: the builder has returned a family of three or more events
\* from a file that also holds a pair below cc_min and a pair at cc_min.
C8_Witness ==
    /\ fpc = "done"
    /\ \E k \in DOMAIN families : Len(families[k].members) >= 3
    /\ \E e, f \in FamEvIds :
          correlations[e][f] # NoCc /\ correlations[e][f] < cc_min
    /\ \E e, f \in FamEvIds : correlations[e][f] = cc_min

\* C9: the returned families are exactly the connected components of size
\* >= 2 of the graph of pairs with cc >= cc_min, and no event is in two
\* families.
C9_ConnectedComponents ==
    fpc = "done" =>
        /\ FamSets(families) = Components
        /\ \A k, m \in DOMAIN families :
              k # m => FamSet(families[k]) \cap FamSet(families[m]) = {}

\* C10: whatever the order in which the event dictionary is iterated, the
\* builder returns the same families as sets of sets of evids.
C10_OrderIndependent ==
    fpc = "done" =>
        \A order \in Perms(SeqToSet(events)) :
            LET r == SharedRun([families |-> <<>>, raised |-> FALSE], order)
            IN  ~r.raised => FamSets(r.families) = FamSets(families)

\* ------------------------------------------------ claims, UPGMA builder
\* C11: in every family the UPGMA builder returns, any two events are
\* joined by a chain of pairs that the pair file holds with cc >= cc_min.
C11_UpgmaFamiliesLinked ==
    fpc = "upgma_done" =>
        \A k \in DOMAIN families :
            \A e, f \in FamSet(families[k]) : f \in Closure({e})

\* the correlation the UPGMA builder works with: the recorded one, or the
\* lowest recorded one for a pair the file does not hold
FilledCc(e, f) == 100 - Distance(e, f)

Similar(e, f) == e = f \/ FilledCc(e, f) >= cc_min

\* the filled matrix is made of blocks: cc >= cc_min inside a block and
\* cc < cc_min across blocks
IsBlockMatrix ==
    \A e, f, g \in SeqToSet(events) :
        Similar(e, f) /\ Similar(f, g) => Similar(e, g)

Blocks ==
    {b \in {{f \in SeqToSet(events) : Similar(e, f)} : e \in SeqToSet(events)} :
        Cardinality(b) >= 2}

\* the flat clustering behind the returned families: the families and the
\* events left alone
ReturnedPartition ==
    FamSets(families)
        \cup {{e} : e \in {x \in SeqToSet(events) :
                              \A k \in DOMAIN families :
                                  x \notin FamSet(families[k])}}

\* C12: the families the UPGMA builder returns have at least two events
\* and are pairwise disjoint; they come from the average-linkage cut at
\* 1 - cc_min, so no two clusters of the result are within that distance
\* of each other on average; and on a block matrix they are the blocks.
C12_UpgmaClusters ==
    fpc = "upgma_done" =>
        /\ \A k \in DOMAIN families : Len(families[k].members) >= 2
        /\ \A k, m \in DOMAIN families :
              k # m => FamSet(families[k]) \cap FamSet(families[m]) = {}
        /\ \A A, B \in ReturnedPartition :
              A # B => SumDistances(A \X B)
                          > (100 - cc_min) * Cardinality(A) * Cardinality(B)
        /\ IsBlockMatrix => FamSets(families) = Blocks

\* C12 happens: the builder has returned two families from a block matrix
\* with a recorded pair below cc_min across the blocks.
C12_Witness ==
    /\ fpc = "upgma_done"
    /\ IsBlockMatrix
    /\ Len(families) = 2
    /\ \E e \in FamSet(families[1]), f \in FamSet(families[2]) :
          correlations[e][f] # NoCc /\ correlations[e][f] < cc_min

\* ------------------------------------------------- claims, family file
\* the families read back from the output file
ReadBack == _read_families_from_catalog_scan(outfile.rows)

\* C13: in the family file the numbers are 0..F-1 for the F families
\* built, the rows of a family are contiguous, the numbers follow the
\* configured sort key in non-decreasing order, every row is valid, and
\* reading the file back gives F families with the same members under the
\* same numbers.
C13_FamilyFile ==
    fpc = "written" =>
        /\ {outfile.rows[k].family_number : k \in DOMAIN outfile.rows}
              = 0..(Len(families) - 1)
        /\ \A i, j, k \in DOMAIN outfile.rows :
              /\ i < j
              /\ j < k
              /\ outfile.rows[i].family_number = outfile.rows[k].family_number
              => outfile.rows[j].family_number = outfile.rows[i].family_number
        /\ \A k \in DOMAIN outfile.rows : outfile.rows[k].valid = "True"
        /\ Len(ReadBack) = Len(families)
        /\ \A k \in DOMAIN ReadBack :
              /\ ReadBack[k].number = k - 1
              /\ ReadBack[k].valid
              /\ ~ReadBack[k].fam.raised
              /\ FamSet(ReadBack[k].fam)
                    = {outfile.rows[r].evid :
                          r \in {q \in DOMAIN outfile.rows :
                                    outfile.rows[q].family_number = k - 1}}
        /\ \A k, m \in DOMAIN ReadBack :
              k < m => ~KeyLess(sort_keys(ReadBack[m].fam),
                                sort_keys(ReadBack[k].fam))
        /\ \A S \in FamSets(families) :
              Cardinality({k \in DOMAIN families : FamSet(families[k]) = S})
                = Cardinality({k \in DOMAIN ReadBack :
                                  FamSet(ReadBack[k].fam) = S})

\* C13 happens: two families have been written in an order that is not
\* the order in which the builder returned them.
C13_Witness ==
    /\ fpc = "written"
    /\ Len(families) >= 2
    /\ FamSet(ReadBack[1].fam) # FamSet(families[1])

\* the reference point of sort mode distance_from is missing
RefPointMissing == distance_from_lon = NoCoord \/ distance_from_lat = NoCoord

\* C14: with sort mode distance_from and a missing reference point,
\* build_families ends at once with exit status 1, no row of the pair file
\* read and the output file untouched; with any other sort mode, or with
\* the reference point given, the options are accepted and the pair file is
\* opened.  Nothing happens after the exit.
C14_CheckOptions ==
    [][/\ fpc = "start" =>
            IF sort_families_by = "distance_from" /\ RefPointMissing
            THEN /\ fpc' = "exit"
                 /\ build_exit' = 1
                 /\ n_rows' = 0
                 /\ outfile' = NoFile
            ELSE /\ fpc' = "read"
                 /\ build_exit' = -1
       /\ fpc # "exit"]_vars

\* C14 happens: the run has ended with status 1 for sort mode
\* distance_from with the longitude given and the latitude missing.
C14_Witness ==
    /\ fpc = "exit"
    /\ build_exit = 1
    /\ sort_families_by = "distance_from"
    /\ distance_from_lon # NoCoord
    /\ distance_from_lat = NoCoord

\* ------------------------------------------ claims, family selection
\* the numbers a family_numbers argument stands for: "all", a list
\* "a,b,c", a range "a-b" without b, or a single number; none of these if
\* it is malformed
SelectorIsList(sel) ==
    /\ \E k \in DOMAIN sel : sel[k] = ","
    /\ \A k \in DOMAIN Split(sel, ",") : IntOk(Split(sel, ",")[k])

SelectorIsRange(sel) ==
    /\ \A k \in DOMAIN sel : sel[k] # ","
    /\ Len(Split(sel, "-")) = 2
    /\ \A k \in 1..2 : IsDigits(Split(sel, "-")[k])

SelectorIsNumber(sel) == IsDigits(sel)

SelectorMalformed(sel) ==
    /\ sel # All
    /\ ~SelectorIsList(sel)
    /\ ~SelectorIsRange(sel)
    /\ ~SelectorIsNumber(sel)

StoredNumbers == {outfile.rows[k].family_number : k \in DOMAIN outfile.rows}

SelectorNumbers(sel) ==
    IF sel = All THEN StoredNumbers
    ELSE IF SelectorIsList(sel)
    THEN {IntValue(Split(sel, ",")[k]) : k \in DOMAIN Split(sel, ",")}
    ELSE IF SelectorIsRange(sel)
    THEN {n \in StoredNumbers :
            /\ DigitsValue(Split(sel, "-")[1]) <= n
            /\ n < DigitsValue(Split(sel, "-")[2])}
    ELSE IF SelectorIsNumber(sel) THEN {DigitsValue(sel)}
    ELSE {}

RowsOf(n) == {k \in DOMAIN outfile.rows : outfile.rows[k].family_number = n}

\* the stored family n is valid, lasts at least longerthan and less than
\* shorterthan, and has at least minevents events
StoredFamilyPasses(n) ==
    /\ \A k \in RowsOf(n) : outfile.rows[k].valid = "True"
    /\ \A k, m \in RowsOf(n) :
          OrigTime(outfile.rows[k].evid) - OrigTime(outfile.rows[m].evid)
              < args.shorterthan
    /\ \E k, m \in RowsOf(n) :
          OrigTime(outfile.rows[k].evid) - OrigTime(outfile.rows[m].evid)
              >= args.longerthan
    /\ Cardinality(RowsOf(n)) >= args.minevents

ExpectedNumbers ==
    {n \in StoredNumbers \cap SelectorNumbers(args.family_numbers) :
        StoredFamilyPasses(n)}

\* C15: read_selected_families returns, in file order, exactly the stored
\* families that the selector names and that pass the tests on validity,
\* duration and size; it raises FamilyNotFoundError when there is none or
\* when the selector is malformed.
C15_SelectedFamilies ==
    selection.pc # "start" =>
        IF SelectorMalformed(args.family_numbers) \/ ExpectedNumbers = {}
        THEN selection.pc = "raised"
        ELSE /\ selection.pc = "returned"
             /\ {selection.families_selected[k].number :
                    k \in DOMAIN selection.families_selected}
                  = ExpectedNumbers
             /\ \A k, m \in DOMAIN selection.families_selected :
                   k < m => selection.families_selected[k].number
                               < selection.families_selected[m].number
             /\ \A k \in DOMAIN selection.families_selected :
                   FamSet(selection.families_selected[k].fam)
                     = {outfile.rows[r].evid :
                          r \in RowsOf(selection.families_selected[k].number)}

\* C15 happens: the range 0-1 has returned family 0 alone from a file that
\* also holds a family 1 passing every test.
C15_Witness ==
    /\ selection.pc = "returned"
    /\ args.family_numbers = <<"0", "-", "1">>
    /\ Len(selection.families_selected) = 1
    /\ 1 \in StoredNumbers
    /\ StoredFamilyPasses(1)

\* ------------------------------------------------ claims, catalog files
\* one event per evid, in the order of the origin times
DedupSorted(cat) == SortedSeq(SeqToSet(cat))

\* C16: a catalog that is written and read back into an empty catalog
\* comes back with one event per evid, sorted by origin time.
C16_CatalogRoundTrip ==
    cat_pc = "read_back" =>
        /\ ~cat_out.raised
        /\ cat_out.events = DedupSorted(cat_in)

\* the evids of the lines of a file that are neither comments nor blank
EventsOfFile ==
    {ev \in EvIds : \E k \in DOMAIN cat_file : cat_file[k] = EventLine(ev)}

\* C17: reading a file skips the lines that begin with # and the blank
\* lines: no error is raised and the events read are those of the other
\* lines.
C17_CommentsAndBlanksSkipped ==
    cat_pc = "read_given" =>
        /\ ~cat_out.raised
        /\ SeqToSet(cat_out.events) = EventsOfFile

\* ---------------------------------------------- claims, template scanner
\* the number of chunk start times template_start_time + k*time_chunk,
\* k = 0, 1, ..., that are <= template_end_time, for time_chunk > 0
ExpectedChunks ==
    IF template_end_time < template_start_time THEN 0
    ELSE (template_end_time - template_start_time) \div time_chunk + 1

AllFilesClosed ==
    \A sig \in DOMAIN catalog_files : catalog_files[sig].closed

\* the i-th call of _scan_family_template is for template ((i-1) mod n) + 1
\* of chunk (i-1) div n, n being the number of templates
C18_Order ==
    \A i \in DOMAIN scanned :
        LET n == Len(templates)
            k == (i - 1) \div n
            t0 == template_start_time + k * time_chunk
        IN  /\ scanned[i].t0 = t0
            /\ t0 <= template_end_time
            /\ scanned[i].t1 = t0 + time_chunk + time_chunk_overlap
            /\ scanned[i].template = ((i - 1) % n) + 1

C18_Complete ==
    /\ tpc = "done" =>
        /\ time_chunk > 0 \/ template_end_time < template_start_time
        /\ time_chunk > 0 =>
               Len(scanned) = Len(templates) * ExpectedChunks
        /\ AllFilesClosed
    /\ tpc # "done" =>
           \A sig \in DOMAIN catalog_files : ~catalog_files[sig].closed

LinesBefore(sig) == Len(catalog_files[sig].lines)

C19_Bound ==
    \A sig \in DOMAIN catalog_files :
        Len(catalog_files[sig].lines) <= n_chunks

C19_Step ==
    scanned' # scanned =>
        LET template == templates[tmpl_last'.template]
            sig == template_signature(template)
            computed == tmpl_last'.kind \in {"detection", "quiet"}
            exceeds == tmpl_last'.cc_max >
                           min_cc_mad_ratio * tmpl_last'.cc_mad
            grown == Len(catalog_files'[sig].lines) - LinesBefore(sig)
        IN  /\ computed => (exceeds <=> grown = 1)
            /\ grown \in {0, 1}
            /\ ~computed => grown = 0
            /\ grown = 1 =>
                   catalog_files'[sig].lines[LinesBefore(sig) + 1].t0
                       = tmpl_last'.t0
            /\ \A other \in DOMAIN catalog_files \ {sig} :
                   catalog_files'[other] = catalog_files[other]

\* C19: for each (chunk, template) a line is written to the catalog file of
\* that template if and only if cc_max / cc_mad > min_cc_mad_ratio, then
\* exactly one line, and no other file changes; a catalog file never holds
\* more lines than chunks were scanned.
C19_TriggerRule == [](C19_Bound) /\ [][C19_Step]_vars

\* C19 witness: a detection was written for the second of two templates
\* while the file of the first one is empty.
C19_Witness ==
    /\ Len(templates) = 2
    /\ tmpl_last.kind = "detection"
    /\ tmpl_last.template = 2
    /\ catalog_files[template_signature(templates[1])].lines = <<>>
    /\ Len(catalog_files[template_signature(templates[2])].lines) = 1

\* ------------------------------------------------ claims, both scans
C20_PairStep ==
    (visited' # visited /\ last'.kind = "skip") =>
        /\ pc' = "scan"
        /\ exit_status' = -1
        /\ <<pi', pj'>> = NextPair(pi, pj)

C20_PairEnd ==
    /\ pc = "done" =>
           exit_status = 0 /\ visited = PairsFrom(catalog, 1, 2)
    /\ exit_status = 1 => Len(catalog) < 2 \/ last.kind = "fatal"

C20_TemplateStep ==
    (scanned' # scanned /\ tmpl_last'.kind = "nodata") =>
        /\ tpc' = "scan"
        /\ tmpl_exit' = -1
        /\ catalog_files' = catalog_files
        /\ IF tmpl_idx < Len(templates)
           THEN tmpl_idx' = tmpl_idx + 1 /\ time' = time
           ELSE tmpl_idx' = 1 /\ time' = time + time_chunk

C20_TemplateEnd ==
    /\ tpc = "done" =>
        /\ tmpl_exit = 0
        /\ time_chunk > 0 =>
               Len(scanned) = Len(templates) * ExpectedChunks
    /\ tmpl_exit = 1 => tmpl_families = <<>> \/ tmpl_last.kind = "fatal"

\* C20: NoWaveformError does not end a run.  In the catalog scan the loop
\* goes on to the next pair, and a run that reaches its end has visited
\* every pair and exits with status 0; in the template scan the loop goes on
\* to the next template of the chunk, or to the next chunk, and a run that
\* reaches its end has scanned every template in every chunk and exits with
\* status 0.  Status 1 comes from something else only: fewer than two
\* events or a metadata error, no family selected or a sampling interval
\* that differs.
C20_NoWaveformNeverAborts ==
    /\ [](C20_PairEnd /\ C20_TemplateEnd)
    /\ [][C20_PairStep /\ C20_TemplateStep]_vars

\* C20 witness: the first template of the first chunk got no waveform, the
\* loop is at the second template, and a later chunk is still to come.
C20_Witness ==
    /\ tpc = "scan"
    /\ tmpl_exit = -1
    /\ Len(templates) = 2
    /\ tmpl_last.kind = "nodata"
    /\ tmpl_last.template = 1
    /\ tmpl_last.t0 = template_start_time
    /\ tmpl_idx = 2
    /\ time + time_chunk <= template_end_time

\* ------------------------------------------- claims, the interrupt signal
RECURSIVE CompleteRows(_)
\* the text of the rows ks, each in full
CompleteRows(ks) ==
    IF ks = <<>> THEN <<>> ELSE RowText(Head(ks)) \o CompleteRows(Tail(ks))

OneTraceId(fam) ==
    \A k \in DOMAIN fam.members : ev_trace[fam.members[k]] = fam.trace_id

\* appending ev to fam raises and changes nothing
AppendRefused(fam, ev) ==
    LET after == FamilyAppend(fam, ev)
    IN  /\ after.raised
        /\ after.members = fam.members
        /\ after.trace_id = fam.trace_id

C23_CacheHoldsEvent1Only ==
    /\ \A key \in DOMAIN tr_cache : key[1] = last.ev1
    /\ Cardinality({key[1] : key \in DOMAIN tr_cache}) <= 1

\* -------------------------------------- claims, WaveformPair trace_id loop
\* the trace_ids one call tried: none twice, each at most as far from event
\* 1 as the next one, and none of the others closer than one that was tried
AttemptsByDistance ==
    LET att == wp_last.attempts
        ids == SeqToSet(wp_catalog_trace_id)
    IN  /\ \A a, b \in DOMAIN att : a # b => att[a] # att[b]
        /\ SeqToSet(att) \subseteq ids
        /\ \A a, b \in DOMAIN att : a < b =>
              PairDist(wp_last.ev1, att[a]) <= PairDist(wp_last.ev1, att[b])
        /\ \A a \in DOMAIN att : \A t \in ids \ SeqToSet(att) :
              PairDist(wp_last.ev1, att[a]) <= PairDist(wp_last.ev1, t)

\* a returned stream: the traces of the two events, for one trace_id
TwoTracesOneTraceId ==
    wp_last.out = "run" =>
        /\ Len(wp_last.st) = 2
        /\ wp_last.st[1][1] = wp_last.ev1
        /\ wp_last.st[2][1] = wp_last.ev2
        /\ wp_last.st[1][2] = wp_last.st[2][2]
        /\ wp_last.st[1][2] = wp_last.attempts[Len(wp_last.attempts)]

\* what has failed is recorded as skipped and was not asked for again
FailedNeverRequestedAgain ==
    /\ wp_failed \subseteq skipped_evids_traceids
    /\ \A k \in DOMAIN wp_last.requests :
          ~wp_last.requests[k].failed_before

C25_ChunkCache ==
    /\ (tpc = "scan" /\ tmpl_idx = 1) => trace_cache = {}
    /\ \A key \in trace_cache : key[1] = ChunkWindow(time).t0
    /\ tmpl_last.kind # "none" =>
          /\ tmpl_last.got_after \subseteq
                 {templates[k].id : k \in 1..tmpl_last.template}
          /\ templates[tmpl_last.template].id \in tmpl_last.got_before
                 => ~tmpl_last.fetched

\* C25: the second template of a chunk shares its trace_id with the first,
\* whose trace came from the provider, and is scanned without a request
C25_Witness ==
    /\ tmpl_last.kind \in {"detection", "quiet"}
    /\ tmpl_last.template = 2
    /\ templates[1].id = templates[2].id
    /\ templates[2].id \in tmpl_last.got_before
    /\ ~tmpl_last.fetched
    /\ n_chunks = 2

\* --------------------------------------- claims, aggregates of a family
\* C26: after any calls of Family.append no two members have the same
\* evid, the members are sorted by origin time, starttime and endtime are
\* the least and the greatest origin time, and magmin and magmax are the
\* least and the greatest magnitude of the members that have one.
C26_Aggregates ==
    LET mem == app_family.members
        times == {mem[k].orig_time : k \in DOMAIN mem}
        mags == {mem[k].mag : k \in DOMAIN mem} \ {NoMag}
    IN  /\ \A a, b \in DOMAIN mem : a # b => mem[a].evid # mem[b].evid
        /\ \A a, b \in DOMAIN mem :
              a < b => mem[a].orig_time <= mem[b].orig_time
        /\ mem # <<>> =>
              /\ app_family.starttime \in times
              /\ app_family.endtime \in times
              /\ \A t \in times : app_family.starttime <= t
              /\ \A t \in times : t <= app_family.endtime
        /\ mags # {} =>
              /\ app_family.magmin \in mags
              /\ app_family.magmax \in mags
              /\ \A x \in mags : app_family.magmin <= x
              /\ \A x \in mags : x <= app_family.magmax

\* ------------------------------------------ claims, alignment of traces
\* the last call of align_pair kept the length of the trace, moved the
\* samples by lag places with zeros filled in, and moved both arrival times
\* by lag * dt
AlignPairShifts ==
    al_last.tr # 0 =>
        LET tr == al_st[al_last.tr]
            lag == al_last.lag
        IN  /\ Len(tr.data) = Len(al_last.before)
            /\ \A i \in DOMAIN tr.data :
                  tr.data[i] = IF i - lag \in DOMAIN al_last.before
                               THEN al_last.before[i - lag] ELSE 0
            /\ tr.P_arrival_time = al_last.p_before + lag * al_delta
            /\ tr.S_arrival_time = al_last.s_before + lag * al_delta
            /\ Abs(lag) <= cc_max_shift \div al_delta

\* C27: the lags align_traces applies to a trace add up to at most
\* floor(cc_max_shift / dt) samples in absolute value, the sum being the
\* change of its P arrival time divided by dt, and each call of align_pair
\* keeps the length, moves the samples by lag with zero fill and adds
\* lag * dt to the P and S arrival times.
C27_TotalShiftBounded ==
    /\ AlignPairShifts
    /\ \A k \in DOMAIN al_st :
          /\ (al_st[k].P_arrival_time - 10) = SumOver(al_st[k].lags) * al_delta
          /\ Abs(SumOver(al_st[k].lags)) <= cc_max_shift \div al_delta

\* ----------------------------------- claims, the configured trace_id list
\* C28: after any number of calls of get_traceid_coords, with or without a
\* trace_id on the command line, config.catalog_trace_id has the elements
\* it was configured with, in the same order, so station selection finds a
\* singleton list after a call exactly when the configured list is one.
C28_ConfiguredListUnchanged ==
    /\ tc_catalog_trace_id = tc_configured
    /\ tc_last.out # "none" => (tc_last.singleton <=> Len(tc_configured) = 1)

\* ------------------------------------------------- claims, flag_family
\* C29: flag_family keeps the number and order of the rows and every field
\* but valid; valid changes only in the rows of the requested family and
\* only when is_valid is a recognised word; with an unrecognised word the
\* file is unchanged.
C29_OnlyRequestedFlagChanges ==
    flag_pc = "done" =>
        LET recognised == flag_is_valid \in {"True", "true", "t", "T",
                              "False", "false", "FALSE", "f", "F"}
        IN  /\ Len(flag_file) = Len(flag_before)
            /\ \A k \in DOMAIN flag_file :
                  /\ flag_file[k].evid = flag_before[k].evid
                  /\ flag_file[k].family_number = flag_before[k].family_number
                  /\ flag_file[k].valid # flag_before[k].valid =>
                        /\ flag_file[k].family_number = flag_family_number
                        /\ recognised
            /\ ~recognised => flag_file = flag_before

\* --------------------------------- claims, cc_max_shift in scan_templates
\* C30: scan_templates leaves config.cc_max_shift at its configured value,
\* and the correlation that refines a detection searches lags up to
\* floor(cc_max_shift / dt) for the configured value.
C30_ConfiguredShiftKept ==
    /\ tmpl_cc_max_shift = configured_cc_max_shift
    /\ tmpl_last.kind = "detection" =>
          tmpl_last.detection_shift =
              configured_cc_max_shift \div StreamDelta
====
